---- MODULE Spec2Model ----
(***************************************************************************)
(* ZvtClient: the socket client of the card-terminal protocol.             *)
(* One client instance, the sockets it creates, the startPayment           *)
(* invocations running on it, the terminal at the other end of the wire    *)
(* and the timers of the Node.js event loop.                               *)
(*                                                                         *)
(* The handlers of the client are written as functions from a state        *)
(* record to a state record (disconnect, connect, send, finish, onData,    *)
(* ...) so that a handler that calls another one is their composition, as  *)
(* in the source.  Every action of Next is one callback or one API call    *)
(* run to completion: Node.js runs them one at a time.                     *)
(***************************************************************************)
EXTENDS Integers, Sequences, FiniteSets, TLC

\* ------------------------------------------------------------------------
\* Bounds of the model
\* ------------------------------------------------------------------------
MaxCalls      == 2  \* connect/send/startPayment/abortPayment calls (Spec)
MaxFrames     == 1  \* frames the terminal puts on the wire (Spec)
PayMaxCalls   == 2  \* connect/startPayment calls (SpecPay)
PayMaxFrames  == 2  \* frames the terminal puts on the wire (SpecPay)
MaxChunk      == 8  \* bytes of the largest chunk SocketData delivers
AuthMaxCalls  == 2  \* startPayment/abortPayment calls (SpecAuthorize)
MaxConnects   == 1  \* connect calls (SpecAuthorize)
MaxRequests   == 3  \* requests of the renderer (SpecRuntime)

Max(a, b) == IF a >= b THEN a ELSE b
Min(a, b) == IF a <= b THEN a ELSE b
\* each socket and each invocation comes from one call
SockIds == 1..Max(MaxCalls, PayMaxCalls)
PayIds  == 1..Max(MaxCalls, PayMaxCalls)

\* ------------------------------------------------------------------------
\* Bytes and texts.  A Buffer is a sequence of bytes; a string is a
\* sequence of character codes (58 ':', 61 '=', 45 '-', 48..57 digits,
\* 65..90 and 97..122 letters).
\* ------------------------------------------------------------------------
StrAPPROV  == <<65, 80, 80, 82, 79, 86>>
StrOK      == <<79, 75>>
StrSUCCESS == <<83, 85, 67, 67, 69, 83, 83>>
StrRRN     == <<82, 82, 78>>
StrAUTH    == <<65, 85, 84, 72>>
StrSTATUS  == <<83, 84, 65, 84, 85, 83>>
\* "Socket timeout", "Connect timeout", "Socket not connected"
StrSocketTimeout  == <<83, 111, 99, 107, 101, 116, 32, 116, 105, 109, 101, 111, 117, 116>>
StrConnectTimeout == <<67, 111, 110, 110, 101, 99, 116, 32, 116, 105, 109, 101, 111, 117, 116>>
StrNotConnected   == <<83, 111, 99, 107, 101, 116, 32, 110, 111, 116, 32, 99, 111, 110,
                       110, 101, 99, 116, 101, 100>>
\* messages of errors raised by Node: "read ECONNRESET" for a failure of an
\* open socket, "Invalid port" for a socket that cannot be created
StrECONNRESET     == <<114, 101, 97, 100, 32, 69, 67, 79, 78, 78, 82, 69, 83, 69, 84>>
StrInvalidPort    == <<73, 110, 118, 97, 108, 105, 100, 32, 112, 111, 114, 116>>
\* texts of TerminalRuntime: "Idle timeout", "XXX", "...",
\* "Serial connection type is not supported yet"
StrIdleTimeout    == <<73, 100, 108, 101, 32, 116, 105, 109, 101, 111, 117, 116>>
StrXXX            == <<88, 88, 88>>
StrEllipsis       == <<46, 46, 46>>
StrSerial ==
  <<83, 101, 114, 105, 97, 108, 32, 99, 111, 110, 110, 101, 99, 116, 105, 111,
    110, 32, 116, 121, 112, 101, 32, 105, 115, 32, 110, 111, 116, 32, 115, 117,
    112, 112, 111, 114, 116, 101, 100, 32, 121, 101, 116>>
\* "Timeout waiting for completion"
StrTimeout == <<84, 105, 109, 101, 111, 117, 116, 32, 119, 97, 105, 116,
                105, 110, 103, 32, 102, 111, 114, 32, 99, 111, 109, 112,
                108, 101, 116, 105, 111, 110>>

\* Buffer.toString("utf8"): the UTF-16 code units of the decoded text.  A
\* well-formed sequence of two, three or four bytes is one character (two
\* code units above U+FFFF); every other byte, and every truncated
\* sequence, decodes to U+FFFD.
IsCont(data, j) == j <= Len(data) /\ data[j] >= 128 /\ data[j] <= 191
\* the second byte of a sequence led by b: no overlong form, no surrogate,
\* nothing above U+10FFFF
IsSecond(data, j, b) ==
  /\ IsCont(data, j)
  /\ b = 224 => data[j] >= 160
  /\ b = 237 => data[j] <= 159
  /\ b = 240 => data[j] >= 144
  /\ b = 244 => data[j] <= 143
RECURSIVE Utf8Decode(_, _)
Utf8Decode(data, j) ==
  IF j > Len(data) THEN <<>>
  ELSE
    LET b == data[j] IN
    IF b < 128 THEN <<b>> \o Utf8Decode(data, j + 1)
    ELSE IF b >= 194 /\ b <= 223 /\ IsCont(data, j + 1)
      THEN <<(b - 192) * 64 + (data[j + 1] - 128)>> \o Utf8Decode(data, j + 2)
    ELSE IF b >= 224 /\ b <= 239 /\ IsSecond(data, j + 1, b)
      THEN IF IsCont(data, j + 2)
             THEN <<(b - 224) * 4096 + (data[j + 1] - 128) * 64
                      + (data[j + 2] - 128)>> \o Utf8Decode(data, j + 3)
             ELSE <<65533>> \o Utf8Decode(data, j + 2)
    ELSE IF b >= 240 /\ b <= 244 /\ IsSecond(data, j + 1, b)
      THEN IF IsCont(data, j + 2) /\ IsCont(data, j + 3)
             THEN LET cp == (b - 240) * 262144 + (data[j + 1] - 128) * 4096
                              + (data[j + 2] - 128) * 64 + (data[j + 3] - 128)
                  IN  <<55296 + ((cp - 65536) \div 1024),
                        56320 + ((cp - 65536) % 1024)>>
                        \o Utf8Decode(data, j + 4)
             ELSE IF IsCont(data, j + 2)
               THEN <<65533>> \o Utf8Decode(data, j + 3)
               ELSE <<65533>> \o Utf8Decode(data, j + 2)
    ELSE <<65533>> \o Utf8Decode(data, j + 1)

Utf8ToString(data) == Utf8Decode(data, 1)

\* Case folding of the /i flag (no /u flag: ASCII letters only).
Upper(c) == IF c >= 97 /\ c <= 122 THEN c - 32 ELSE c

\* pat (upper case) occurs in txt at position p, ignoring case
MatchAt(txt, p, pat) ==
  /\ p >= 1
  /\ p + Len(pat) - 1 <= Len(txt)
  /\ \A j \in 1..Len(pat) : Upper(txt[p + j - 1]) = pat[j]

Contains(txt, pat) == \E p \in 1..Len(txt) : MatchAt(txt, p, pat)

\* faulty variant: the /i flag is missing
approved_CaseSensitive(txt) ==
  \E pat \in {StrAPPROV, StrOK, StrSUCCESS} :
    \E p \in 1..Len(txt) :
      /\ p + Len(pat) - 1 <= Len(txt)
      /\ SubSeq(txt, p, p + Len(pat) - 1) = pat

\* /APPROV|OK|SUCCESS/i.test(txt)
approved(txt) ==
  Contains(txt, StrAPPROV) \/ Contains(txt, StrOK) \/ Contains(txt, StrSUCCESS)

\* the character class [0-9A-Za-z-]
IsTokenChar(c) ==
  \/ c >= 48 /\ c <= 57
  \/ c >= 65 /\ c <= 90
  \/ c >= 97 /\ c <= 122
  \/ c = 45

\* /KEY[:=]([0-9A-Za-z-]+)/i matches with KEY at position p
KeyMatchAt(txt, p, key) ==
  /\ MatchAt(txt, p, key)
  /\ p + Len(key) + 1 <= Len(txt)
  /\ txt[p + Len(key)] \in {58, 61}
  /\ IsTokenChar(txt[p + Len(key) + 1])

\* the greedy run of token characters that starts at position p
RECURSIVE TokenRun(_, _)
TokenRun(txt, p) ==
  IF p <= Len(txt) /\ IsTokenChar(txt[p])
    THEN <<txt[p]>> \o TokenRun(txt, p + 1)
    ELSE <<>>

\* /KEY[:=]([0-9A-Za-z-]+)/i.exec(txt)?.[1]; <<>> stands for undefined (the
\* group matches at least one character).
capture(txt, key) ==
  LET hits == {p \in 1..Len(txt) : KeyMatchAt(txt, p, key)}
  IN  IF hits = {} THEN <<>>
      ELSE LET p == CHOOSE q \in hits : \A r \in hits : q <= r
           IN  TokenRun(txt, p + Len(key) + 1)

\* ------------------------------------------------------------------------
\* Frame codec (helpers of startPayment / abortPayment)
\* ------------------------------------------------------------------------
ACK == <<128, 0, 0>>

\* Buffer.from([cla, ins, data.length]) stores the length modulo 256
buildApdu(cla, ins, data) == <<cla, ins, Len(data) % 256>> \o data

\* the decimal digits of a non-negative integer, String(minor)
RECURSIVE Digits(_)
Digits(n) == IF n < 10 THEN <<n>> ELSE Digits(n \div 10) \o <<n % 10>>

\* String.padStart(8, "0") on a digit string
PadStart8(ds) ==
  IF Len(ds) >= 8 THEN ds ELSE [j \in 1..(8 - Len(ds)) |-> 0] \o ds

\* the digits of a text without the zeros at its end
RECURSIVE StripZeros(_)
StripZeros(ds) ==
  IF Len(ds) > 1 /\ ds[Len(ds)] = 0 THEN StripZeros(SubSeq(ds, 1, Len(ds) - 1))
  ELSE ds

\* String(x) of the integer x = m * 10^e, m >= 0.  A digit character is
\* written as its value 0..9; '.', '+' and 'e' as their codes 46, 43 and
\* 101.  Up to 21 digits the text is the decimal expansion; from 10^21 on
\* it is the exponent notation d.ddde+n of the significant digits.
NumberToString(m, e) ==
  LET all == IF m = 0 THEN <<0>> ELSE Digits(m) \o [j \in 1..e |-> 0]
      n   == Len(all)
      sig == StripZeros(all)
  IN  IF n <= 21 THEN all
      ELSE (IF Len(sig) = 1 THEN <<sig[1]>>
            ELSE <<sig[1], 46>> \o SubSeq(sig, 2, Len(sig)))
             \o <<101, 43>> \o Digits(n - 1)

\* parseInt(c, 10) of one character, as the operand of << and |: the digit,
\* and 0 for NaN
parseIntDigit(c) == IF c <= 9 THEN c ELSE 0

\* faulty variant: the low nibble holds the first digit of each pair
amountToBcd_LowNibbleFirst(minor) ==
  LET s   == PadStart8(Digits(minor))
      out == [i \in 1..4 |-> s[2 * i] * 16 + s[2 * i - 1]]
  IN  <<4, Len(out)>> \o out

\* faulty variant: the last eight digits are encoded
amountToBcd_LastEightDigits(minor) ==
  LET s   == PadStart8(Digits(minor % 100000000))
      out == [i \in 1..4 |-> s[2 * i - 1] * 16 + s[2 * i]]
  IN  <<4, Len(out)>> \o out

\* the body of amountToBcd on the text s of the amount
amountToBcdOfText(s0) ==
  LET s   == PadStart8(s0)
      out == [i \in 1..4 |-> parseIntDigit(s[2 * i - 1]) * 16
                               + parseIntDigit(s[2 * i])]
  IN  <<4, Len(out)>> \o out

amountToBcd(minor) == amountToBcdOfText(NumberToString(minor, 0))

\* faulty variant: no container when there is no item
encodeTlvEmpty_Omitted == <<>>

\* encodeTlv([]) : the empty 0x06 container
encodeTlvEmpty == <<6, 0>>

\* buf.slice(n): the bytes after the first n
Slice(buf, n) == SubSeq(buf, n + 1, Len(buf))

NoApdu == [ok |-> FALSE, cla |-> 0, ins |-> 0, len |-> 0, data |-> <<>>]

parseApdu(buf) ==
  IF Len(buf) < 3 THEN NoApdu
  ELSE IF Len(buf) < 3 + buf[3] THEN NoApdu
  ELSE [ok |-> TRUE, cla |-> buf[1], ins |-> buf[2], len |-> buf[3],
        data |-> SubSeq(buf, 4, 3 + buf[3])]

\* ------------------------------------------------------------------------
\* The terminal of the test double: how it reads the amount of an
\* Authorization frame
\* ------------------------------------------------------------------------
\* parseInt(digits, 10) on a string of decimal digits
RECURSIVE ParseInt(_)
ParseInt(ds) ==
  IF ds = <<>> THEN 0
  ELSE 10 * ParseInt(SubSeq(ds, 1, Len(ds) - 1)) + ds[Len(ds)]

\* the digit string bcdToAmount builds: for every byte the decimal digits
\* of its high nibble, then those of its low nibble
RECURSIVE NibbleDigits(_)
NibbleDigits(b) ==
  IF b = <<>> THEN <<>>
  ELSE Digits(b[1] \div 16) \o Digits(b[1] % 16) \o NibbleDigits(Slice(b, 1))

\* bcdToAmount(b): v = parseInt(digits, 10), returned as (v / 100).toFixed(2),
\* here the pair of its integer part and its two decimals
bcdToAmount(b) ==
  LET v == ParseInt(NibbleDigits(b)) IN <<v \div 100, v % 100>>

\* data.indexOf(0x04), -1 (here 0) when there is none
IndexOf4(data) ==
  LET hits == {j \in 1..Len(data) : data[j] = 4}
  IN  IF hits = {} THEN 0 ELSE CHOOSE j \in hits : \A m \in hits : j <= m

\* what the terminal reads as the amount of the Authorization data; <<>>
\* when it finds no amount field
amountInfo(data) ==
  LET idx == IndexOf4(data)
  IN  IF idx # 0 /\ Len(data) >= (idx - 1) + 2 + 4
        THEN bcdToAmount(SubSeq(data, idx + 2, Min(idx + 1 + data[idx + 1], Len(data))))
        ELSE <<>>

\* ------------------------------------------------------------------------
\* State
\* ------------------------------------------------------------------------
VARIABLES
  socket,       \* this.#socket: the id of the owned socket, 0 for undefined
  nconnect,     \* connect() calls so far; the n-th call creates socket n
  sstate,       \* per socket: "absent", "connecting" (net), "connectingTls"
                \* (tls), "handshaking" (tls, TCP connected), "open",
                \* "destroyed"
  idle,         \* per socket: the idle timer of socket.setTimeout is running
  ctimer,       \* per socket, the connectTimeout timer: "none", "armed",
                \* "cleared", "fired", "firedTornDown" (its callback ran
                \* after disconnect() had torn the socket down)
  listeners,    \* per socket: the listeners of connect() are attached
  closePending, \* per socket: destroyed, 'close' not yet emitted
  destroyCalls, \* per socket: destroy() calls made by disconnect()
  written,      \* per socket: the frames written to it, in order
  deadWrites,   \* per socket: write() calls made after it was destroyed
  events,       \* the connected, disconnected, error and timeout events the
                \* client emitted, in order, each with the socket whose
                \* listener emitted it
  thrown,       \* how many API calls threw Error('Socket not connected')
  ncalls,       \* connect, send, startPayment and abortPayment calls so far
  inflight,     \* per socket: bytes the terminal wrote to it, not yet
                \* delivered by a 'data' event
  nsent,        \* frames the terminal wrote so far
  received,     \* per socket: the bytes the client emitted as rawData
                \* events, concatenated
  npay,         \* startPayment invocations so far
  finished,     \* per invocation: the `finished` flag
  buffer,       \* per invocation: the receive buffer
  optimer,      \* per invocation, the timer t: "none", "armed", "cleared",
                \* "fired"
  lsock,        \* per invocation: the socket onData is attached to, or 0
  resolved,     \* per invocation: the values resolve() was called with
  plog,         \* per invocation: what it did, in order: the amount it
                \* was called with, frames decoded, callbacks, ACKs written
  rx,           \* per invocation: all bytes handed to its onData
  runtime,      \* "none": the client is used on its own; "active": a
                \* TerminalRuntime owns the client and its window is open;
                \* "destroyed": the window was closed and destroy() has run
  external,     \* the events the runtime sent to the window on
                \* "zvt:event", in order
  replies,      \* the values the IPC handlers returned, in order
  mockRead      \* per socket: how many of the frames written to it the
                \* test double has handled

vars == <<socket, nconnect, sstate, idle, ctimer, listeners,
          closePending, destroyCalls, written, deadWrites, events, thrown,
          ncalls, inflight, nsent, received, npay, finished, buffer,
          optimer, lsock, resolved, plog, rx, runtime, external, replies,
          mockRead>>

\* the state as one record, the argument and result of every handler
State ==
  [socket |-> socket, nconnect |-> nconnect, sstate |-> sstate,
   idle |-> idle, ctimer |-> ctimer,
   listeners |-> listeners, closePending |-> closePending,
   destroyCalls |-> destroyCalls, written |-> written,
   deadWrites |-> deadWrites, events |-> events, thrown |-> thrown,
   ncalls |-> ncalls, inflight |-> inflight, nsent |-> nsent,
   received |-> received, npay |-> npay, finished |-> finished,
   buffer |-> buffer, optimer |-> optimer, lsock |-> lsock,
   resolved |-> resolved, plog |-> plog, rx |-> rx,
   runtime |-> runtime, external |-> external, replies |-> replies,
   mockRead |-> mockRead]

\* the next state is the record T
Becomes(T) ==
  /\ socket' = T.socket             /\ nconnect' = T.nconnect
  /\ sstate' = T.sstate             /\ rx' = T.rx
  /\ idle' = T.idle                 /\ ctimer' = T.ctimer
  /\ listeners' = T.listeners       /\ closePending' = T.closePending
  /\ destroyCalls' = T.destroyCalls /\ written' = T.written
  /\ deadWrites' = T.deadWrites     /\ events' = T.events
  /\ thrown' = T.thrown             /\ ncalls' = T.ncalls
  /\ inflight' = T.inflight         /\ nsent' = T.nsent
  /\ received' = T.received         /\ npay' = T.npay
  /\ finished' = T.finished         /\ buffer' = T.buffer
  /\ optimer' = T.optimer           /\ lsock' = T.lsock
  /\ resolved' = T.resolved         /\ plog' = T.plog
  /\ runtime' = T.runtime           /\ external' = T.external
  /\ replies' = T.replies           /\ mockRead' = T.mockRead

Step(S) == \E T \in {S} : Becomes(T)

\* the state after `new ZvtClient()`
Initial ==
  [socket |-> 0, nconnect |-> 0,
   sstate |-> [s \in SockIds |-> "absent"],
   idle |-> [s \in SockIds |-> FALSE],
   ctimer |-> [s \in SockIds |-> "none"],
   listeners |-> [s \in SockIds |-> FALSE],
   closePending |-> [s \in SockIds |-> FALSE],
   destroyCalls |-> [s \in SockIds |-> 0],
   written |-> [s \in SockIds |-> <<>>],
   deadWrites |-> [s \in SockIds |-> 0],
   events |-> <<>>, thrown |-> 0, ncalls |-> 0,
   inflight |-> [s \in SockIds |-> <<>>],
   nsent |-> 0,
   received |-> [s \in SockIds |-> <<>>],
   npay |-> 0,
   finished |-> [i \in PayIds |-> FALSE],
   buffer |-> [i \in PayIds |-> <<>>],
   optimer |-> [i \in PayIds |-> "none"],
   lsock |-> [i \in PayIds |-> 0],
   resolved |-> [i \in PayIds |-> <<>>],
   plog |-> [i \in PayIds |-> <<>>],
   rx |-> [i \in PayIds |-> <<>>],
   runtime |-> "none", external |-> <<>>, replies |-> <<>>,
   mockRead |-> [s \in SockIds |-> 0]]

Init ==
  /\ socket = Initial.socket             /\ nconnect = Initial.nconnect
  /\ sstate = Initial.sstate             /\ rx = Initial.rx
  /\ idle = Initial.idle                 /\ ctimer = Initial.ctimer
  /\ listeners = Initial.listeners       /\ closePending = Initial.closePending
  /\ destroyCalls = Initial.destroyCalls /\ written = Initial.written
  /\ deadWrites = Initial.deadWrites     /\ events = Initial.events
  /\ thrown = Initial.thrown             /\ ncalls = Initial.ncalls
  /\ inflight = Initial.inflight         /\ nsent = Initial.nsent
  /\ received = Initial.received         /\ npay = Initial.npay
  /\ finished = Initial.finished         /\ buffer = Initial.buffer
  /\ optimer = Initial.optimer           /\ lsock = Initial.lsock
  /\ resolved = Initial.resolved         /\ plog = Initial.plog
  /\ runtime = Initial.runtime           /\ external = Initial.external
  /\ replies = Initial.replies           /\ mockRead = Initial.mockRead

\* ------------------------------------------------------------------------
\* Node.js: EventEmitter, net.Socket, timers
\* ------------------------------------------------------------------------
\* an event for the window.  by: "client" for a forwarded client event,
\* "callback" for onStatus / onReceiptLine, "payment" for the end of a
\* 'zvt:start-payment' request; pay: the startPayment invocation, or 0
ExternalEvent(type, code, text, by, pay) ==
  [type |-> type, code |-> code, text |-> text, rrn |-> <<>>,
   authCode |-> <<>>, by |-> by, pay |-> pay]

\* faulty variant: the newest event overtakes the ones sent before
runtimeEmit_NewestFirst(S, event) ==
  IF S.runtime = "active" THEN [S EXCEPT !.external = <<event>> \o @] ELSE S

\* TerminalRuntime.#emit: nothing is sent to a destroyed window
runtimeEmit(S, event) ==
  IF S.runtime = "active" THEN [S EXCEPT !.external = Append(@, event)] ELSE S

\* the listeners TerminalRuntime attaches to the client
wireClientEvents(S, type, message) ==
  IF S.runtime = "none" THEN S
  ELSE IF type = "timeout"
    THEN runtimeEmit(S, ExternalEvent("error", "", StrIdleTimeout, "client", 0))
  ELSE IF type = "error"
    THEN runtimeEmit(S, ExternalEvent("error", "", message, "client", 0))
  ELSE IF type = "rawData"
    THEN runtimeEmit(S, ExternalEvent("status", "RAW", StrXXX, "client", 0))
  ELSE runtimeEmit(S, ExternalEvent(type, "", <<>>, "client", 0))

\* this.emit(type) from a listener of socket s (0: from connect()'s catch)
emit(S, type, s) ==
  wireClientEvents([S EXCEPT !.events = Append(@, [type |-> type, sock |-> s])],
                   type, <<>>)

\* this.emit("error", err)
emitError(S, s, message) ==
  wireClientEvents([S EXCEPT !.events = Append(@, [type |-> "error", sock |-> s])],
                   "error", message)

\* this.emit("rawData", data) from the 'data' listener of socket s
emitRawData(S, s, data) ==
  wireClientEvents([S EXCEPT !.received[s] = @ \o data], "rawData", <<>>)

\* throw new Error("Socket not connected")
throw(S) == [S EXCEPT !.thrown = @ + 1]

Threw(S, T) == T.thrown > S.thrown

\* socket.destroy(): nothing on a destroyed socket; otherwise the socket is
\* closed at once, its idle timer is cleared and its 'close' event is
\* emitted later
destroy(S, s) ==
  IF S.sstate[s] = "destroyed" THEN S
  ELSE [S EXCEPT !.sstate[s] = "destroyed", !.idle[s] = FALSE,
                 !.closePending[s] = TRUE]

\* if (connectTimeout) clearTimeout(connectTimeout)
clearConnectTimeout(S, s) ==
  [S EXCEPT !.ctimer[s] = IF @ = "armed" THEN "cleared" ELSE @]

\* socket.write(frame): a destroyed socket drops the bytes
write(S, s, frame) ==
  IF S.sstate[s] = "destroyed"
    THEN [S EXCEPT !.deadWrites[s] = @ + 1]
    ELSE [S EXCEPT !.written[s] = Append(@, frame)]

\* ------------------------------------------------------------------------
\* ZvtClient: connection
\* ------------------------------------------------------------------------
\* socket.removeAllListeners(): the listeners of connect() and the onData
\* listeners of the invocations attached to s.  The 'close' event that is
\* still to come has no listener left to run.
\* faulty variant: the invocations listening on s are settled as failed
removeAllListeners_SettlesInvocations(S, s) ==
  [S EXCEPT !.listeners[s] = FALSE,
            !.closePending[s] = FALSE,
            !.lsock = [i \in PayIds |-> IF S.lsock[i] = s THEN 0 ELSE S.lsock[i]],
            !.finished = [i \in PayIds |-> S.finished[i] \/ S.lsock[i] = s],
            !.optimer = [i \in PayIds |->
                           IF S.lsock[i] = s /\ S.optimer[i] = "armed"
                             THEN "cleared" ELSE S.optimer[i]],
            !.resolved = [i \in PayIds |->
                            IF S.lsock[i] = s /\ ~S.finished[i]
                              THEN Append(S.resolved[i],
                                          [success |-> FALSE, message |-> <<>>,
                                           rrn |-> <<>>, authCode |-> <<>>])
                              ELSE S.resolved[i]]]

removeAllListeners(S, s) ==
  [S EXCEPT !.listeners[s] = FALSE,
            !.closePending[s] = FALSE,
            !.lsock = [i \in PayIds |-> IF S.lsock[i] = s THEN 0 ELSE S.lsock[i]]]

\* faulty variant: the listeners stay on the destroyed socket
disconnect_KeepsListeners(S) ==
  IF S.socket # 0
    THEN LET s  == S.socket
             S1 == [destroy(S, s) EXCEPT !.destroyCalls[s] = @ + 1]
         IN  [S1 EXCEPT !.socket = 0]
    ELSE S

\* faulty variant: this.#socket is not reset
disconnect_KeepsReference(S) ==
  IF S.socket # 0
    THEN LET s  == S.socket
             S1 == [destroy(S, s) EXCEPT !.destroyCalls[s] = @ + 1]
         IN  removeAllListeners(S1, s)
    ELSE S

\* faulty variant: disconnect() reports the end of the connection itself
disconnect_EmitsDisconnected(S) ==
  IF S.socket # 0
    THEN LET s  == S.socket
             S1 == [destroy(S, s) EXCEPT !.destroyCalls[s] = @ + 1]
             S2 == removeAllListeners(S1, s)
         IN  emit([S2 EXCEPT !.socket = 0], "disconnected", s)
    ELSE S

disconnect(S) ==
  IF S.socket # 0
    THEN LET s  == S.socket
             S1 == [destroy(S, s) EXCEPT !.destroyCalls[s] = @ + 1]
             S2 == removeAllListeners(S1, s)
         IN  [S2 EXCEPT !.socket = 0]
    ELSE S

\* faulty variant: the previous connection is not torn down
connect_NoTeardown(S, opts) ==
  LET S1 == [S EXCEPT !.nconnect = @ + 1]
      s  == S1.nconnect
  IN  IF opts.throws
        THEN emitError(S1, 0, StrInvalidPort)
        ELSE [S1 EXCEPT !.sstate[s] = IF opts.tls THEN "connectingTls"
                                                   ELSE "connecting",
                        !.idle[s] = opts.idleMs,
                        !.ctimer[s] = IF opts.connectMs THEN "armed" ELSE "none",
                        !.listeners[s] = TRUE,
                        !.socket = s]

\* faulty variant: the catch block swallows the failure
connect_FailureUnreported(S, opts) ==
  LET S1 == [disconnect(S) EXCEPT !.nconnect = @ + 1]
      s  == S1.nconnect
  IN  IF opts.throws
        THEN S1
        ELSE [S1 EXCEPT !.sstate[s] = IF opts.tls THEN "connectingTls"
                                                   ELSE "connecting",
                        !.idle[s] = opts.idleMs,
                        !.ctimer[s] = IF opts.connectMs THEN "armed" ELSE "none",
                        !.listeners[s] = TRUE,
                        !.socket = s]

\* connect(options).  opts.throws: tls.connect / net.createConnection (or
\* socket.setTimeout) throws, e.g. on a port out of range.
connect(S, opts) ==
  LET S1 == [disconnect(S) EXCEPT !.nconnect = @ + 1]
      s  == S1.nconnect
  IN  IF opts.throws
        THEN emitError(S1, 0, StrInvalidPort)
        ELSE [S1 EXCEPT !.sstate[s] = IF opts.tls THEN "connectingTls"
                                                   ELSE "connecting",
                        !.idle[s] = opts.idleMs,
                        !.ctimer[s] = IF opts.connectMs THEN "armed" ELSE "none",
                        !.listeners[s] = TRUE,
                        !.socket = s]

\* socket.once("connect", ...)
onConnect(S, s) ==
  IF S.listeners[s] THEN emit(clearConnectTimeout(S, s), "connected", s) ELSE S

\* socket.on("error", ...)
onError(S, s, message) ==
  IF S.listeners[s] THEN emitError(clearConnectTimeout(S, s), s, message) ELSE S

\* socket.on("close", ...)
onClose(S, s) ==
  IF S.listeners[s] THEN emit(clearConnectTimeout(S, s), "disconnected", s) ELSE S

\* socket.destroy(err): as destroy(), and 'error' is emitted on the next
\* tick, before any other callback runs
destroyWithError(S, s, message) ==
  IF S.sstate[s] = "destroyed" THEN S ELSE onError(destroy(S, s), s, message)

\* faulty variant: the socket is destroyed without an error
onTimeout_DestroyWithoutError(S, s) ==
  IF S.listeners[s] THEN destroy(emit(S, "timeout", s), s) ELSE S

\* socket.on("timeout", ...)
onTimeout(S, s) ==
  IF S.listeners[s]
    THEN destroyWithError(emit(S, "timeout", s), s, StrSocketTimeout)
    ELSE S

\* faulty variant: the callback leaves the socket alone
onConnectTimeout_NoDestroy(S, s) ==
  [S EXCEPT !.ctimer[s] = IF S.listeners[s] THEN "fired" ELSE "firedTornDown"]

\* faulty variant: the callback destroys the socket the client owns when it
\* runs, not the socket of its own attempt
onConnectTimeout_DestroysOwned(S, s) ==
  LET S1 == [S EXCEPT !.ctimer[s] =
                 IF S.listeners[s] THEN "fired" ELSE "firedTornDown"]
  IN  IF S.socket = 0 THEN S1
      ELSE destroyWithError(S1, S.socket, StrConnectTimeout)

\* the callback of the connectTimeout timer
onConnectTimeout(S, s) ==
  LET S1 == [S EXCEPT !.ctimer[s] =
                 IF S.listeners[s] THEN "fired" ELSE "firedTornDown"]
  IN  destroyWithError(S1, s, StrConnectTimeout)

send(S, frame) ==
  IF S.socket = 0 THEN throw(S) ELSE write(S, S.socket, frame)

\* ------------------------------------------------------------------------
\* ZvtClient: startPayment
\* ------------------------------------------------------------------------
log(S, i, k, v) == [S EXCEPT !.plog[i] = Append(@, [k |-> k, v |-> v])]

TimeoutResult ==
  [success |-> FALSE, message |-> StrTimeout, rrn |-> <<>>, authCode |-> <<>>]

\* faulty variant: no `finished` flag and no clearTimeout
finish_ResolveOnly(S, i, res) ==
  [S EXCEPT !.finished[i] = TRUE,
            !.lsock[i] = IF S.socket # 0 /\ @ = S.socket THEN 0 ELSE @,
            !.resolved[i] = Append(@, res)]

\* faulty variant: the operation timer is left running
finish_NoClearTimeout(S, i, res) ==
  IF S.finished[i] THEN S
  ELSE [S EXCEPT !.finished[i] = TRUE,
                 !.lsock[i] = IF S.socket # 0 /\ @ = S.socket THEN 0 ELSE @,
                 !.resolved[i] = Append(@, res)]

\* faulty variant: onData stays attached
finish_KeepsListener(S, i, res) ==
  IF S.finished[i] THEN S
  ELSE [S EXCEPT !.finished[i] = TRUE,
                 !.optimer[i] = IF @ = "armed" THEN "cleared" ELSE @,
                 !.resolved[i] = Append(@, res)]

finish(S, i, res) ==
  IF S.finished[i] THEN S
  ELSE [S EXCEPT !.finished[i] = TRUE,
                 !.lsock[i] = IF S.socket # 0 /\ @ = S.socket THEN 0 ELSE @,
                 !.optimer[i] = IF @ = "armed" THEN "cleared" ELSE @,
                 !.resolved[i] = Append(@, res)]

\* the first n characters of a text
Take(text, n) == SubSeq(text, 1, Min(n, Len(text)))

\* opts.onStatus(text); the callback of TerminalRuntime sends a status event
onStatus(S, i, text) ==
  LET S1 == log(S, i, "onStatus", text)
  IN  IF S.runtime = "none" THEN S1
      ELSE runtimeEmit(S1, ExternalEvent("status", "PAYMENT",
                                         Take(text, 100) \o StrEllipsis,
                                         "callback", i))

\* opts.onReceiptLine(text); the callback of TerminalRuntime sends a
\* receipt-line event
onReceiptLine(S, i, text) ==
  LET S1 == log(S, i, "onReceiptLine", text)
  IN  IF S.runtime = "none" THEN S1
      ELSE runtimeEmit(S1, ExternalEvent("receipt-line", "",
                                         Take(text, 100) \o StrEllipsis,
                                         "callback", i))

\* this.send(ACK) inside onData
sendAck(S, i) ==
  LET T == send(S, ACK) IN IF Threw(S, T) THEN T ELSE log(T, i, "ack", <<>>)

\* faulty variant: the ACK is written before the callback runs
onStatusFrame_AckFirst(S, i, apdu) ==
  LET text == Utf8ToString(apdu.data)
      S1   == sendAck(S, i)
  IN  IF Threw(S, S1) THEN S1
      ELSE onStatus(S1, i, IF text = <<>> THEN StrSTATUS ELSE text)

\* 04 0F Status Information: opts.onStatus(text || "STATUS"), ACK
onStatusFrame(S, i, apdu) ==
  LET text == Utf8ToString(apdu.data)
  IN  sendAck(onStatus(S, i, IF text = <<>> THEN StrSTATUS ELSE text), i)

\* faulty variant: a receipt frame settles the invocation as a Completion
\* frame does
onReceiptFrame_Settles(S, i, apdu) ==
  LET text == Utf8ToString(apdu.data)
      S1   == sendAck(onReceiptLine(S, i, text), i)
  IN  IF Threw(S, S1) THEN S1
      ELSE finish(S1, i, [success |-> TRUE, message |-> text,
                          rrn |-> <<>>, authCode |-> <<>>])

\* 06 D1 / 06 D3 receipt line or text block: opts.onReceiptLine(text), ACK
onReceiptFrame(S, i, apdu) ==
  sendAck(onReceiptLine(S, i, Utf8ToString(apdu.data)), i)

\* faulty variant: the text is dropped from a result that is not a success
outcome_DeclineWithoutMessage(txt) ==
  [success |-> approved(txt),
   message |-> IF approved(txt) THEN txt ELSE <<>>,
   rrn |-> capture(txt, StrRRN), authCode |-> capture(txt, StrAUTH)]

\* the outcome read from the text of a Completion frame
outcome(txt) ==
  [success |-> approved(txt), message |-> txt,
   rrn |-> capture(txt, StrRRN), authCode |-> capture(txt, StrAUTH)]

\* 06 0F Completion: ACK, then finish with the outcome
onCompletionFrame(S, i, apdu) ==
  LET S1 == sendAck(S, i)
  IN  IF Threw(S, S1) THEN S1
      ELSE finish(S1, i, outcome(Utf8ToString(apdu.data)))

\* faulty variant: frames of an unknown opcode are not acknowledged
onOtherFrame_NoAck(S, i, apdu) == S

\* any other frame: ACK
onOtherFrame(S, i, apdu) == sendAck(S, i)

RECURSIVE onDataLoop(_, _)
\* faulty variant: the loop goes on after a Completion frame
onDataLoop_ParsesOn(S, i) ==
  IF Len(S.buffer[i]) < 3 THEN S
  ELSE
    LET apdu == parseApdu(S.buffer[i]) IN
    IF ~apdu.ok THEN S
    ELSE
      LET S1 == log([S EXCEPT !.buffer[i] = Slice(@, 3 + apdu.len)],
                    i, "frame", <<apdu.cla, apdu.ins>>)
          S2 == IF apdu.cla = 4 /\ apdu.ins = 15
                  THEN onStatusFrame(S1, i, apdu)
                ELSE IF apdu.cla = 6 /\ (apdu.ins = 209 \/ apdu.ins = 211)
                  THEN onReceiptFrame(S1, i, apdu)
                ELSE IF apdu.cla = 6 /\ apdu.ins = 15
                  THEN onCompletionFrame(S1, i, apdu)
                ELSE onOtherFrame(S1, i, apdu)
      IN  IF Threw(S, S2) THEN S2 ELSE onDataLoop(S2, i)

\* the while loop of onData: take one frame off the buffer, handle it, and
\* go on unless it was a Completion (return) or send threw
onDataLoop(S, i) ==
  IF Len(S.buffer[i]) < 3 THEN S
  ELSE
    LET apdu == parseApdu(S.buffer[i]) IN
    IF ~apdu.ok THEN S
    ELSE
      LET total == 3 + apdu.len
          S1 == log([S EXCEPT !.buffer[i] = Slice(@, total)],
                    i, "frame", <<apdu.cla, apdu.ins>>)
      IN
      IF apdu.cla = 4 /\ apdu.ins = 15 THEN
        LET S2 == onStatusFrame(S1, i, apdu)
        IN  IF Threw(S, S2) THEN S2 ELSE onDataLoop(S2, i)
      ELSE IF apdu.cla = 6 /\ (apdu.ins = 209 \/ apdu.ins = 211) THEN
        LET S2 == onReceiptFrame(S1, i, apdu)
        IN  IF Threw(S, S2) THEN S2 ELSE onDataLoop(S2, i)
      ELSE IF apdu.cla = 6 /\ apdu.ins = 15 THEN
        onCompletionFrame(S1, i, apdu)
      ELSE
        LET S2 == onOtherFrame(S1, i, apdu)
        IN  IF Threw(S, S2) THEN S2 ELSE onDataLoop(S2, i)

\* faulty variant: the chunk replaces the buffer
onData_NoAccumulate(S, i, chunk) ==
  onDataLoop([S EXCEPT !.buffer[i] = chunk, !.rx[i] = @ \o chunk], i)

onData(S, i, chunk) ==
  onDataLoop([S EXCEPT !.buffer[i] = @ \o chunk, !.rx[i] = @ \o chunk], i)

\* the value an IPC handler returns.  connectionType and pay say which
\* request it answers: the transport a connect request asked for, the
\* startPayment invocation of a payment request (0: it threw)
reply(S, channel, connectionType, pay, value) ==
  [S EXCEPT !.replies = Append(@, [channel |-> channel,
                                   connectionType |-> connectionType,
                                   pay |-> pay, value |-> value])]

\* faulty variant: a result that is not a success is reported as an error
\* and as declined
afterStartPayment_DeclinesTwice(S, i) ==
  LET result == S.resolved[i][1]
      S1 == IF result.success
              THEN runtimeEmit(S, [ExternalEvent("approved", "", <<>>, "payment", i)
                                     EXCEPT !.rrn = result.rrn,
                                            !.authCode = result.authCode])
              ELSE runtimeEmit(
                     runtimeEmit(S, ExternalEvent("error", "", result.message,
                                                  "payment", i)),
                     ExternalEvent("declined", "", result.message, "payment", i))
  IN  reply(S1, "zvt:start-payment", "", i, result)

\* 'zvt:start-payment' after `await this.#client.startPayment(...)`:
\* approved or declined is sent to the window and the result is returned
afterStartPayment(S, i) ==
  LET result == S.resolved[i][1]
      S1 == IF result.success
              THEN runtimeEmit(S, [ExternalEvent("approved", "", <<>>, "payment", i)
                                     EXCEPT !.rrn = result.rrn,
                                            !.authCode = result.authCode])
              ELSE runtimeEmit(S, ExternalEvent("declined", "", result.message,
                                                "payment", i))
  IN  reply(S1, "zvt:start-payment", "", i, result)

\* the promise reactions that run when callback S0 -> S has returned: the
\* handlers awaiting the invocations it resolved, in the order resolved
RECURSIVE runMicrotasks(_, _, _)
runMicrotasks(S0, S, i) ==
  IF S.runtime = "none" \/ i > S.npay THEN S
  ELSE IF S0.resolved[i] = <<>> /\ S.resolved[i] # <<>>
    THEN runMicrotasks(S0, afterStartPayment(S, i), i + 1)
    ELSE runMicrotasks(S0, S, i + 1)

\* the callback of the operation timer t
onOperationTimeout(S, i) ==
  runMicrotasks(S, finish([S EXCEPT !.optimer[i] = "fired"], i, TimeoutResult), 1)

\* faulty variant: the precondition check is missing
startPayment_NoCheck(S, amountCents) ==
  LET i == S.npay + 1
      payload == amountToBcd(amountCents) \o encodeTlvEmpty
      S1 == [S EXCEPT !.npay = i,
                      !.finished[i] = FALSE,
                      !.buffer[i] = <<>>,
                      !.optimer[i] = "armed",
                      !.lsock[i] = S.socket]
  IN  send(log(S1, i, "authorization", <<amountCents>>),
           buildApdu(6, 1, payload))

\* faulty variant: a new invocation takes the socket over from the
\* invocations that are listening
startPayment_TakesOver(S, amountCents) ==
  IF S.socket = 0 THEN throw(S)
  ELSE
    LET i == S.npay + 1
        payload == amountToBcd(amountCents) \o encodeTlvEmpty
        S1 == [S EXCEPT !.npay = i,
                        !.finished[i] = FALSE,
                        !.buffer[i] = <<>>,
                        !.optimer[i] = "armed",
                        !.lsock = [k \in PayIds |->
                                     IF k = i \/ S.lsock[k] # S.socket
                                       THEN (IF k = i THEN S.socket ELSE S.lsock[k])
                                       ELSE 0]]
    IN  send(log(S1, i, "authorization", <<amountCents>>),
             buildApdu(6, 1, payload))

startPayment(S, amountCents) ==
  IF S.socket = 0 THEN throw(S)
  ELSE
    LET i == S.npay + 1
        payload == amountToBcd(amountCents) \o encodeTlvEmpty
        S1 == [S EXCEPT !.npay = i,
                        !.finished[i] = FALSE,
                        !.buffer[i] = <<>>,
                        !.optimer[i] = "armed",
                        !.lsock[i] = S.socket]
    IN  send(log(S1, i, "authorization", <<amountCents>>),
             buildApdu(6, 1, payload))

\* faulty variant: the abort settles the latest invocation
abortPayment_Settles(S) ==
  IF S.socket = 0 THEN throw(S)
  ELSE LET T == send(S, buildApdu(6, 2, <<>>))
       IN  IF S.npay >= 1 THEN finish(T, S.npay, TimeoutResult) ELSE T

abortPayment(S) ==
  IF S.socket = 0 THEN throw(S)
  ELSE send(S, buildApdu(6, 2, <<>>))

\* ------------------------------------------------------------------------
\* The 'data' event of socket s with the first k bytes in flight: the
\* listener of connect() first, then the onData listeners in the order they
\* were attached.  emit() runs the listeners that were attached when it
\* started.
\* ------------------------------------------------------------------------
RECURSIVE deliverTo(_, _, _, _, _)
deliverTo(S, attached, s, i, chunk) ==
  IF i > S.npay THEN S
  ELSE IF attached[i] = s
    THEN LET T == onData(S, i, chunk)
         IN  IF Threw(S, T) THEN T ELSE deliverTo(T, attached, s, i + 1, chunk)
    ELSE deliverTo(S, attached, s, i + 1, chunk)

onSocketData(S, s, k) ==
  LET chunk == SubSeq(S.inflight[s], 1, k)
      S1    == [S EXCEPT !.inflight[s] = Slice(@, k)]
      S2    == IF S.listeners[s] THEN emitRawData(S1, s, chunk) ELSE S1
  IN  runMicrotasks(S, deliverTo(S2, S.lsock, s, 1, chunk), 1)

\* ------------------------------------------------------------------------
\* The test double (_mocks/pos.js)
\* ------------------------------------------------------------------------
\* "COMPLETION:APPROVED", "COMPLETION:DECLINED"
StrCompletionApproved ==
  <<67, 79, 77, 80, 76, 69, 84, 73, 79, 78, 58, 65, 80, 80, 82, 79, 86, 69,
    68>>
StrCompletionDeclined ==
  <<67, 79, 77, 80, 76, 69, 84, 73, 79, 78, 58, 68, 69, 67, 76, 73, 78, 69,
    68>>
\* "AUTH: processing ", "DIAG:OK", "UNSUPPORTED: "
StrAuthProcessing ==
  <<65, 85, 84, 72, 58, 32, 112, 114, 111, 99, 101, 115, 115, 105, 110,
    103, 32>>
StrDiagOK ==
  <<68, 73, 65, 71, 58, 79, 75>>
StrUnsupported ==
  <<85, 78, 83, 85, 80, 80, 79, 82, 84, 69, 68, 58, 32>>
\* the literal in front of the amount, as the source file has it, and a blank
StrCurrency == <<195, 162, 226, 128, 154, 194, 172, 32>>
\* "*** DEMO RECEIPT ***", "CARD: **** **** **** 1234", "AMOUNT: ", "N/A",
\* "RESULT: APPROVED"
StrDemoReceipt ==
  <<42, 42, 42, 32, 68, 69, 77, 79, 32, 82, 69, 67, 69, 73, 80, 84, 32, 42,
    42, 42>>
StrCard ==
  <<67, 65, 82, 68, 58, 32, 42, 42, 42, 42, 32, 42, 42, 42, 42, 32, 42, 42,
    42, 42, 32, 49, 50, 51, 52>>
StrAmountLabel ==
  <<65, 77, 79, 85, 78, 84, 58, 32>>
StrNA ==
  <<78, 47, 65>>
StrResultApproved ==
  <<82, 69, 83, 85, 76, 84, 58, 32, 65, 80, 80, 82, 79, 86, 69, 68>>

\* apdu.build(cla, ins, data)
apduBuild(cla, ins, data) == <<cla, ins, Len(data) % 256>> \o data
receiptLine(text) == apduBuild(6, 209, text)
statusInfo(text) == apduBuild(4, 15, text)
completion(ok) ==
  apduBuild(6, 15, IF ok THEN StrCompletionApproved ELSE StrCompletionDeclined)

\* the characters of a digit string
DigitChars(ds) == [j \in 1..Len(ds) |-> 48 + ds[j]]

\* (v / 100).toFixed(2) of the amount bcdToAmount read
ToFixed2(amount) ==
  DigitChars(Digits(amount[1])) \o <<46>>
    \o DigitChars(<<amount[2] \div 10, amount[2] % 10>>)

\* the amountInfo text of the Authorization branch
amountInfoText(data) ==
  IF amountInfo(data) = <<>> THEN <<>>
  ELSE StrCurrency \o ToFixed2(amountInfo(data))

respondAuthorization(info) ==
  statusInfo(StrAuthProcessing \o info)
    \o receiptLine(StrDemoReceipt)
    \o receiptLine(StrCard)
    \o receiptLine(StrAmountLabel \o (IF info = <<>> THEN StrNA ELSE info))
    \o receiptLine(StrResultApproved)
    \o completion(TRUE)

respondDiagnosis == statusInfo(StrDiagOK) \o completion(TRUE)

respondAbort == completion(FALSE)

\* n.toString(16).padStart(2, "0")
HexDigit(d) == IF d < 10 THEN 48 + d ELSE 87 + d
hexByte(n) == <<HexDigit(n \div 16), HexDigit(n % 16)>>
toOpcode(cla, ins) == hexByte(cla) \o <<45>> \o hexByte(ins)

\* faulty variant: the test double acknowledges the ACK of the client
handleClient_AcksAck(p) ==
  IF p.cla = 128 /\ p.ins = 0 THEN ACK
  ELSE IF p.cla = 6 /\ p.ins = 112 THEN respondDiagnosis
  ELSE IF p.cla = 6 /\ p.ins = 1 THEN respondAuthorization(amountInfoText(p.data))
  ELSE IF p.cla = 6 /\ p.ins = 30 THEN respondAbort
  ELSE statusInfo(StrUnsupported \o toOpcode(p.cla, p.ins)) \o completion(TRUE)

\* what handleClient writes for one APDU of the client
handleClient(p) ==
  IF p.cla = 128 /\ p.ins = 0 THEN <<>>
  ELSE IF p.cla = 6 /\ p.ins = 112 THEN respondDiagnosis
  ELSE IF p.cla = 6 /\ p.ins = 1 THEN respondAuthorization(amountInfoText(p.data))
  ELSE IF p.cla = 6 /\ p.ins = 30 THEN respondAbort
  ELSE statusInfo(StrUnsupported \o toOpcode(p.cla, p.ins)) \o completion(TRUE)

\* 'data' at the test double with the next frame the client wrote to s
onMockData(S, s) ==
  LET frame == S.written[s][S.mockRead[s] + 1]
  IN  [S EXCEPT !.mockRead[s] = @ + 1,
                !.inflight[s] = @ \o handleClient(parseApdu(frame))]

\* ------------------------------------------------------------------------
\* TerminalRuntime: the IPC handlers
\* ------------------------------------------------------------------------
Success == [success |-> TRUE, message |-> <<>>, rrn |-> <<>>, authCode |-> <<>>]
Failure(message) ==
  [success |-> FALSE, message |-> message, rrn |-> <<>>, authCode |-> <<>>]

\* TerminalRuntime.connect builds the options of ZvtClient.connect
clientOptions(payload) ==
  [tls |-> payload.tls, connectMs |-> payload.connectMs,
   idleMs |-> payload.idleMs, throws |-> payload.badPort]

\* faulty variant: a serial request is connected as TCP
handleConnect_SerialAsTcp(S, payload) ==
  reply(connect(S, clientOptions(payload)),
        "zvt:connect", payload.connectionType, 0, Success)

\* 'zvt:connect': TerminalRuntime.connect throws for a serial transport,
\* before it reaches the client
handleConnect(S, payload) ==
  IF payload.connectionType = "serial"
    THEN reply(S, "zvt:connect", "serial", 0, Failure(StrSerial))
    ELSE reply(connect(S, clientOptions(payload)),
               "zvt:connect", payload.connectionType, 0, Success)

\* 'zvt:disconnect'
handleDisconnect(S) ==
  reply(disconnect(S), "zvt:disconnect", "", 0, Success)

\* 'zvt:start-payment' up to the await; a throw of startPayment is caught
handleStartPayment(S, payload) ==
  LET T == startPayment(S, payload.amountCents)
  IN  IF Threw(S, T)
        THEN reply(runtimeEmit(T, ExternalEvent("error", "", StrNotConnected,
                                                "payment", 0)),
                   "zvt:start-payment", "", 0, Failure(StrNotConnected))
        ELSE T

\* the window is closed: TerminalRuntime.destroy()
windowClosed(S) == disconnect([S EXCEPT !.runtime = "destroyed"])

\* ------------------------------------------------------------------------
\* Inputs
\* ------------------------------------------------------------------------
\* options of connect(): TLS or plain, timeouts.connectMs and
\* timeouts.idleMs set or not, socket creation throwing or not
ConnectOptions ==
  [tls : BOOLEAN, connectMs : BOOLEAN, idleMs : BOOLEAN, throws : {FALSE}]
    \cup {[tls |-> FALSE, connectMs |-> FALSE, idleMs |-> FALSE, throws |-> TRUE]}

\* a plain TCP connection without timeouts
PlainOptions ==
  {[tls |-> FALSE, connectMs |-> FALSE, idleMs |-> FALSE, throws |-> FALSE]}

\* amounts in minor units (1299: the example amount of the README)
Amounts == {1299}

\* the frames the terminal may write: Status Information without text,
\* Completion "OK" (approved), Completion without text (not approved), a
\* frame of an opcode the client does not know, and ACK
FrameStatusEmpty     == <<4, 15, 0>>
FrameCompletionOK    == <<6, 15, 2, 79, 75>>
FrameCompletionEmpty == <<6, 15, 0>>
FrameUnknown         == <<9, 9, 0>>
TerminalFrames ==
  {FrameStatusEmpty, FrameCompletionOK, FrameCompletionEmpty, FrameUnknown, ACK}

\* frames with text: Status Information "A", the receipt line "R" (06 D1)
\* and the text block "T" (06 D3)
FrameStatusText   == <<4, 15, 1, 65>>
FrameReceiptLine  == <<6, 209, 1, 82>>
FrameReceiptBlock == <<6, 211, 1, 84>>
ExchangeFrames ==
  {FrameStatusEmpty, FrameStatusText, FrameReceiptLine, FrameReceiptBlock,
   FrameCompletionOK}

\* texts of Completion frames:
\* "RRN=123 AUTH=456 APPROVED", "DECLINED", "ok", "Success",
\* "rrn:a-1 NO", "AUTH= RRN=7", "AUTH=1 auth:2", "XRRN=9=8" 
StrApprovedText ==
  <<82, 82, 78, 61, 49, 50, 51, 32, 65, 85, 84, 72, 61, 52, 53, 54, 32,
    65, 80, 80, 82, 79, 86, 69, 68>>
StrDECLINED == <<68, 69, 67, 76, 73, 78, 69, 68>>
CompletionTexts ==
  {StrApprovedText, StrDECLINED,
   <<111, 107>>,
   <<83, 117, 99, 99, 101, 115, 115>>,
   <<114, 114, 110, 58, 97, 45, 49, 32, 78, 79>>,
   <<65, 85, 84, 72, 61, 32, 82, 82, 78, 61, 55>>,
   <<65, 85, 84, 72, 61, 49, 32, 97, 117, 116, 104, 58, 50>>,
   <<88, 82, 82, 78, 61, 57, 61, 56>>}
CompletionFrames == {buildApdu(6, 15, t) : t \in CompletionTexts}

\* Completion frames and the frames that are not
OutcomeFrames ==
  CompletionFrames \cup
    {FrameStatusText, FrameReceiptLine, FrameReceiptBlock, FrameUnknown}

\* connect requests of the renderer: TCP without timeouts, TCP with an idle
\* timeout, TCP to a port out of range, serial
RuntimePayloads ==
  {[connectionType |-> "tcp", tls |-> FALSE, connectMs |-> FALSE,
    idleMs |-> FALSE, badPort |-> FALSE],
   [connectionType |-> "tcp", tls |-> FALSE, connectMs |-> FALSE,
    idleMs |-> TRUE, badPort |-> FALSE],
   [connectionType |-> "tcp", tls |-> FALSE, connectMs |-> FALSE,
    idleMs |-> FALSE, badPort |-> TRUE],
   [connectionType |-> "serial", tls |-> FALSE, connectMs |-> FALSE,
    idleMs |-> FALSE, badPort |-> FALSE]}

\* what the terminal writes in answer to a payment seen through the
\* runtime: Status, receipt line and an approving Completion; receipt line,
\* Status and a Completion that does not approve; Status alone
RuntimeAnswers ==
  {FrameStatusText \o FrameReceiptLine \o FrameCompletionOK,
   FrameReceiptLine \o FrameStatusText \o FrameCompletionEmpty,
   FrameStatusText}

\* amounts of the whole range of the 8-digit field: the ends, one digit,
\* every nibble different
AuthAmounts == {0, 7, 12345678, 99999999}

\* ------------------------------------------------------------------------
\* Actions: API calls
\* ------------------------------------------------------------------------
Call(S) == [S EXCEPT !.ncalls = @ + 1]

Connect(options, max) ==
  /\ ncalls < max
  /\ \E opts \in options : Step(connect(Call(State), opts))

\* connect() on a client that connects at most max times
ConnectWithin(options, max) ==
  /\ nconnect < max
  /\ \E opts \in options : Step(connect(State, opts))

Disconnect ==
  /\ socket \in {0} \cup SockIds
  /\ Step(disconnect(State))

Send(max) ==
  /\ ncalls < max
  /\ Step(send(Call(State), ACK))

StartPayment(amounts, max) ==
  /\ ncalls < max
  /\ \E a \in amounts : Step(startPayment(Call(State), a))

AbortPayment(max) ==
  /\ ncalls < max
  /\ Step(abortPayment(Call(State)))

\* ------------------------------------------------------------------------
\* Actions: requests of the renderer, and the window
\* ------------------------------------------------------------------------
RequestConnect(payloads, max) ==
  /\ runtime = "active"
  /\ ncalls < max
  /\ nconnect < MaxCalls
  /\ \E payload \in payloads : Step(handleConnect(Call(State), payload))

RequestDisconnect(max) ==
  /\ runtime = "active"
  /\ ncalls < max
  /\ Step(handleDisconnect(Call(State)))

RequestStartPayment(amounts, max) ==
  /\ runtime = "active"
  /\ ncalls < max
  /\ \E a \in amounts :
       Step(handleStartPayment(Call(State), [amountCents |-> a]))

WindowClosed ==
  /\ runtime = "active"
  /\ Step(windowClosed(State))

\* ------------------------------------------------------------------------
\* Actions: socket events
\* ------------------------------------------------------------------------
Live(s) == sstate[s] \in {"connecting", "connectingTls", "handshaking", "open"}

\* the TCP connection is established: 'connect'
SocketConnect(s) ==
  /\ sstate[s] \in {"connecting", "connectingTls"}
  /\ Step(onConnect([State EXCEPT !.sstate[s] =
                        IF @ = "connectingTls" THEN "handshaking" ELSE "open"], s))

\* the TLS handshake succeeds: 'secureConnect', which has no listener
SecureConnect(s) ==
  /\ sstate[s] = "handshaking"
  /\ Step([State EXCEPT !.sstate[s] = "open"])

\* a socket-level failure (refused, reset, failed handshake): Node destroys
\* the socket with the error
SocketError(s) ==
  /\ Live(s)
  /\ Step(destroyWithError(State, s, StrECONNRESET))

\* the terminal closes the connection
RemoteClose(s) ==
  /\ sstate[s] = "open"
  /\ Step(destroy(State, s))

\* 'close' of a destroyed socket
SocketClose(s) ==
  /\ closePending[s]
  /\ Step(onClose([State EXCEPT !.closePending[s] = FALSE], s))

\* the idle timer of socket.setTimeout fires: 'timeout'
IdleTimeout(s) ==
  /\ Live(s)
  /\ idle[s]
  /\ Step(onTimeout(State, s))

\* the terminal writes a frame to an established connection
TerminalSend(frames, max) ==
  /\ nsent < max
  /\ \E s \in SockIds, f \in frames :
       /\ sstate[s] = "open"
       /\ Step([State EXCEPT !.inflight[s] = @ \o f, !.nsent = @ + 1])

\* 'data' with the first k bytes in flight
SocketData(s) ==
  /\ sstate[s] = "open"
  /\ \E k \in 1..MaxChunk :
       /\ k <= Len(inflight[s])
       /\ Step(onSocketData(State, s, k))

\* 'data' with all the bytes in flight
SocketDataWhole(s) ==
  /\ sstate[s] = "open"
  /\ inflight[s] # <<>>
  /\ Step(onSocketData(State, s, Len(inflight[s])))

\* the test double at the other end of s reads the next frame the client
\* wrote and answers it
MockData(s) ==
  /\ sstate[s] = "open"
  /\ mockRead[s] < Len(written[s])
  /\ Step(onMockData(State, s))

\* ------------------------------------------------------------------------
\* Actions: timers
\* ------------------------------------------------------------------------
ConnectTimeout(s) ==
  /\ ctimer[s] = "armed"
  /\ Step(onConnectTimeout(State, s))

OperationTimeout(i) ==
  /\ optimer[i] = "armed"
  /\ Step(onOperationTimeout(State, i))

\* ------------------------------------------------------------------------
\* Spec: the connection lifecycle.  Every option of connect(), every
\* socket event and timer; one payment and one frame on the wire.
\* ------------------------------------------------------------------------
Next ==
  \/ Connect(ConnectOptions, MaxCalls)
  \/ Disconnect
  \/ Send(MaxCalls)
  \/ StartPayment(Amounts, MaxCalls)
  \/ AbortPayment(MaxCalls)
  \/ \E s \in SockIds : SocketConnect(s)
  \/ \E s \in SockIds : SecureConnect(s)
  \/ \E s \in SockIds : SocketError(s)
  \/ \E s \in SockIds : RemoteClose(s)
  \/ \E s \in SockIds : SocketClose(s)
  \/ \E s \in SockIds : IdleTimeout(s)
  \/ TerminalSend({FrameStatusEmpty}, MaxFrames)
  \/ \E s \in SockIds : SocketData(s)
  \/ \E s \in SockIds : ConnectTimeout(s)
  \/ \E i \in PayIds : OperationTimeout(i)

Spec == Init /\ [][Next]_vars

\* ------------------------------------------------------------------------
\* SpecPay: the authorization exchange on a plain connection.  Every frame
\* of TerminalFrames in every chunking, concurrent invocations, the
\* operation timer, and the end of the connection.
\* ------------------------------------------------------------------------
NextPay ==
  \/ Connect(PlainOptions, PayMaxCalls)
  \/ Disconnect
  \/ StartPayment(Amounts, PayMaxCalls)
  \/ \E s \in SockIds : SocketConnect(s)
  \/ TerminalSend(TerminalFrames, PayMaxFrames)
  \/ \E s \in SockIds : SocketData(s)
  \/ \E i \in PayIds : OperationTimeout(i)

SpecPay == Init /\ [][NextPay]_vars

\* ------------------------------------------------------------------------
\* SpecExchange: the authorization exchange with Status and receipt
\* frames that carry text, in every chunking, and the operation timer.
\* ------------------------------------------------------------------------
NextExchange ==
  \/ Connect(PlainOptions, MaxCalls)
  \/ StartPayment(Amounts, MaxCalls)
  \/ \E s \in SockIds : SocketConnect(s)
  \/ TerminalSend(ExchangeFrames, PayMaxFrames)
  \/ \E s \in SockIds : SocketData(s)
  \/ \E i \in PayIds : OperationTimeout(i)

SpecExchange == Init /\ [][NextExchange]_vars

\* ------------------------------------------------------------------------
\* SpecOutcome: what settles an invocation and with which outcome.  The
\* Completion texts among frames of every other kind, whole frames in each
\* chunk.
\* ------------------------------------------------------------------------
NextOutcome ==
  \/ Connect(PlainOptions, MaxCalls)
  \/ StartPayment(Amounts, MaxCalls)
  \/ \E s \in SockIds : SocketConnect(s)
  \/ TerminalSend(OutcomeFrames, PayMaxFrames)
  \/ \E s \in SockIds : SocketDataWhole(s)
  \/ \E i \in PayIds : OperationTimeout(i)

SpecOutcome == Init /\ [][NextOutcome]_vars

\* ------------------------------------------------------------------------
\* SpecAuthorize: the frames the client writes.  startPayment with every
\* amount of AuthAmounts and abortPayment on a connection that may fail,
\* and the Completion that follows.
\* ------------------------------------------------------------------------
NextAuthorize ==
  \/ ConnectWithin(PlainOptions, MaxConnects)
  \/ StartPayment(AuthAmounts, AuthMaxCalls)
  \/ AbortPayment(AuthMaxCalls)
  \/ \E s \in SockIds : SocketConnect(s)
  \/ \E s \in SockIds : SocketError(s)
  \/ TerminalSend({FrameCompletionOK}, MaxFrames)
  \/ \E s \in SockIds : SocketDataWhole(s)
  \/ \E i \in PayIds : OperationTimeout(i)

SpecAuthorize == Init /\ [][NextAuthorize]_vars

\* ------------------------------------------------------------------------
\* SpecRuntime: the client behind TerminalRuntime.  Requests of the
\* renderer, the events sent to the window, the window being closed.
\* ------------------------------------------------------------------------
\* the state after `new TerminalRuntime(window)`
InitRuntime ==
  /\ runtime = "active"
  /\ \E S \in {[Initial EXCEPT !.runtime = "active"]} :
       /\ socket = S.socket             /\ nconnect = S.nconnect
       /\ sstate = S.sstate             /\ rx = S.rx
       /\ idle = S.idle                 /\ ctimer = S.ctimer
       /\ listeners = S.listeners       /\ closePending = S.closePending
       /\ destroyCalls = S.destroyCalls /\ written = S.written
       /\ deadWrites = S.deadWrites     /\ events = S.events
       /\ thrown = S.thrown             /\ ncalls = S.ncalls
       /\ inflight = S.inflight         /\ nsent = S.nsent
       /\ received = S.received         /\ npay = S.npay
       /\ finished = S.finished         /\ buffer = S.buffer
       /\ optimer = S.optimer           /\ lsock = S.lsock
       /\ resolved = S.resolved         /\ plog = S.plog
       /\ external = S.external         /\ replies = S.replies
       /\ mockRead = S.mockRead

NextRuntime ==
  \/ RequestConnect(RuntimePayloads, MaxRequests)
  \/ RequestDisconnect(MaxRequests)
  \/ RequestStartPayment(Amounts, MaxRequests)
  \/ WindowClosed
  \/ \E s \in SockIds : SocketConnect(s)
  \/ \E s \in SockIds : SocketClose(s)
  \/ \E s \in SockIds : IdleTimeout(s)
  \/ TerminalSend(RuntimeAnswers, MaxFrames)
  \/ \E s \in SockIds : SocketDataWhole(s)
  \/ \E i \in PayIds : OperationTimeout(i)

SpecRuntime == InitRuntime /\ [][NextRuntime]_vars

\* ------------------------------------------------------------------------
\* SpecMock: the client against the test double.  Payments and aborts on
\* one connection, answered by handleClient.
\* ------------------------------------------------------------------------
NextMock ==
  \/ ConnectWithin(PlainOptions, MaxConnects)
  \/ StartPayment(Amounts, AuthMaxCalls)
  \/ AbortPayment(AuthMaxCalls)
  \/ \E s \in SockIds : SocketConnect(s)
  \/ \E s \in SockIds : MockData(s)
  \/ \E s \in SockIds : SocketDataWhole(s)
  \/ \E i \in PayIds : OperationTimeout(i)

SpecMock == Init /\ [][NextMock]_vars

\* ------------------------------------------------------------------------
\* Reading the logs
\* ------------------------------------------------------------------------
\* the complete frames of a byte stream, by the wire format
\* [CLA][INS][LEN][DATA: LEN bytes]
RECURSIVE Frames(_)
Frames(b) ==
  IF Len(b) < 3 THEN <<>>
  ELSE IF Len(b) < 3 + b[3] THEN <<>>
  ELSE <<[cla |-> b[1], ins |-> b[2], data |-> SubSeq(b, 4, 3 + b[3])]>>
         \o Frames(SubSeq(b, 4 + b[3], Len(b)))

IsCompletion(f) == f.cla = 6 /\ f.ins = 15
IsAck(f) == f.cla = 128 /\ f.ins = 0

\* the frames up to and including the first Completion
UntilCompletion(fs) ==
  LET cs == {j \in 1..Len(fs) : IsCompletion(fs[j])}
  IN  IF cs = {} THEN fs
      ELSE SubSeq(fs, 1, CHOOSE j \in cs : \A m \in cs : j <= m)

Opcodes(fs) == [j \in 1..Len(fs) |-> <<fs[j].cla, fs[j].ins>>]

\* the entries of kind k in a log of an invocation
Entries(l, k) == SelectSeq(l, LAMBDA e : e.k = k)

\* the opcodes of the frames invocation i decoded, in order
DecodedOpcodes(i) ==
  LET fs == Entries(plog[i], "frame") IN [j \in 1..Len(fs) |-> fs[j].v]

CompletionDecoded(i) == \E j \in 1..Len(plog[i]) :
  plog[i][j].k = "frame" /\ plog[i][j].v = <<6, 15>>

\* the ACKs logged after entry j of log l and before the next decoded frame
AcksAfter(l, j) ==
  Cardinality({m \in (j + 1)..Len(l) :
                 /\ l[m].k = "ack"
                 /\ \A q \in (j + 1)..m : l[q].k # "frame"})

RECURSIVE SumOver(_, _)
SumOver(f, D) ==
  IF D = {} THEN 0
  ELSE LET x == CHOOSE y \in D : TRUE IN f[x] + SumOver(f, D \ {x})

\* ACK frames written to the sockets, and ACKs logged by the invocations
AcksOnWire(s) == Len(SelectSeq(written[s], LAMBDA f : f = ACK))
AcksLogged(i) == Len(Entries(plog[i], "ack"))

IsPrefix(a, b) == Len(a) <= Len(b) /\ SubSeq(b, 1, Len(a)) = a

Emitted(type, s) == \E j \in 1..Len(events) :
  events[j].type = type /\ events[j].sock = s

\* how often the log ev has the event type of socket s
CountIn(ev, type, s) ==
  Cardinality({j \in 1..Len(ev) : ev[j].type = type /\ ev[j].sock = s})

\* ------------------------------------------------------------------------
\* C1..C10
\* ------------------------------------------------------------------------

\* C1: an invocation of startPayment calls resolve at most once, whatever
\* the chunks and the timer do: if it decoded a Completion frame its result
\* is the outcome of the first Completion frame it received, and if its
\* operation timer fired its result is the timeout result.
C1_SettledAtMostOnce ==
  \A i \in PayIds :
    /\ Len(resolved[i]) <= 1
    /\ CompletionDecoded(i) =>
         LET fs == UntilCompletion(Frames(rx[i]))
         IN  resolved[i] = <<outcome(Utf8ToString(fs[Len(fs)].data))>>
    /\ optimer[i] = "fired" => resolved[i] = <<TimeoutResult>>

\* two Completion frames of different outcome reached the invocation in one
\* chunk, and it resolved
C1_Witness ==
  \E i \in PayIds :
    /\ Len(resolved[i]) = 1
    /\ Opcodes(Frames(rx[i])) = <<<<6, 15>>, <<6, 15>>>>
    /\ Frames(rx[i])[1].data # Frames(rx[i])[2].data

\* the frames of log l that are not ACK frames and were answered by exactly
\* one ACK
AnsweredOnce(l) ==
  Cardinality({j \in 1..Len(l) :
                 /\ l[j].k = "frame"
                 /\ l[j].v # <<128, 0>>
                 /\ AcksAfter(l, j) = 1})

\* C2 as stated: on a connection on which an invocation of startPayment was
\* listening when the first bytes arrived, every complete frame received
\* that is not an ACK is answered by exactly one ACK frame, also when it
\* arrives after the Completion frame or after the timeout.
C2_Original ==
  \A s \in SockIds :
    (npay = 1 /\ rx[1] # <<>> /\ IsPrefix(rx[1], received[s])) =>
      AnsweredOnce(plog[1]) =
        Len(SelectSeq(Frames(received[s]), LAMBDA f : ~IsAck(f)))

\* C2 as amended: every complete frame that reaches an invocation while it
\* is unsettled is decoded by it, and every decoded frame that is not an ACK
\* is answered by that invocation with exactly one ACK frame, whether or not
\* its opcode is known; no other ACK frame is written.
C2_AckPerDecodedFrame ==
  /\ \A i \in PayIds :
       /\ DecodedOpcodes(i) = Opcodes(UntilCompletion(Frames(rx[i])))
       /\ \A j \in 1..Len(plog[i]) :
            (plog[i][j].k = "frame" /\ plog[i][j].v # <<128, 0>>) =>
              AcksAfter(plog[i], j) = 1
  /\ SumOver([s \in SockIds |-> AcksOnWire(s)], SockIds) =
       SumOver([i \in PayIds |-> AcksLogged(i)], PayIds)

\* an invocation answered a frame of an unknown opcode and a Status frame
C2_Witness ==
  \E i \in PayIds :
    /\ DecodedOpcodes(i) = <<<<9, 9>>, <<4, 15>>>>
    /\ AcksLogged(i) = 2
    /\ \E s \in SockIds : AcksOnWire(s) = 2

\* C3: when the operation timer fires and no Completion frame was decoded,
\* the invocation is settled with success = false, the message 'Timeout
\* waiting for completion' and no rrn or authCode; and the operation timer
\* of a settled invocation is not pending.
C3_TimeoutSettles ==
  \A i \in PayIds :
    /\ (optimer[i] = "fired" /\ ~CompletionDecoded(i)) =>
         (finished[i] /\ resolved[i] = <<TimeoutResult>>)
    /\ finished[i] => optimer[i] \in {"cleared", "fired"}

\* an invocation received frames, none a Completion, and timed out
C3_Witness ==
  \E i \in PayIds :
    /\ optimer[i] = "fired"
    /\ Len(Frames(rx[i])) >= 1
    /\ resolved[i] = <<TimeoutResult>>

\* a socket whose connection is settled: torn down by disconnect() (also
\* inside connect()), or its 'error' or 'close' listener ran
Settled(s) ==
  destroyCalls[s] > 0 \/ Emitted("error", s) \/ Emitted("disconnected", s)

\* C4 as stated: once the connection of a socket is settled, its
\* connect-timeout timer is not pending, and its callback never runs on a
\* socket that was torn down.
C4_ConnectTimerCancelled ==
  \A s \in SockIds :
    /\ Settled(s) => ctimer[s] # "armed"
    /\ ctimer[s] # "firedTornDown"

\* C5: every event the client emits comes from a listener of the socket it
\* owns at that moment, so after disconnect() and connect() none comes from
\* the previous socket; connected is emitted at most once per socket, and
\* once for the owned socket when its handshake has succeeded.
C5_NoEventFromPreviousSocket ==
  [][/\ \A j \in (Len(events) + 1)..Len(events') :
          events'[j].sock \in {0, socket}
     /\ \A s \in SockIds : received'[s] # received[s] => s = socket
     /\ \A s \in SockIds : CountIn(events', "connected", s) <= 1
     /\ (socket' # 0 /\ sstate'[socket'] = "open") =>
          CountIn(events', "connected", socket') = 1]_vars

\* the previous socket was connected and was replaced; the new socket
\* completed its handshake and emitted connected
C5_Witness ==
  /\ socket = 2
  /\ sstate[2] = "open"
  /\ destroyCalls[1] = 1
  /\ Emitted("connected", 1)
  /\ Emitted("connected", 2)

\* the run of startPayment that receives the whole stream in one chunk, on
\* a fresh connection
OneChunk(stream) ==
  LET plain == CHOOSE o \in PlainOptions : TRUE
      C == connect(Initial, plain)
      P == startPayment([C EXCEPT !.sstate[C.socket] = "open"],
                        CHOOSE a \in Amounts : TRUE)
  IN  onData(P, 1, stream)

\* C6: what an invocation decoded from the chunks it received -- frames,
\* callbacks and ACKs in order, the bytes left in its buffer and, unless it
\* timed out, its outcome -- is what it decodes from the same bytes
\* delivered in one chunk.
C6_ChunkingIndependent ==
  \A i \in PayIds :
    i <= npay =>
      LET W == OneChunk(rx[i])
      IN  /\ plog[i] = W.plog[1]
          /\ buffer[i] = W.buffer[1]
          /\ optimer[i] # "fired" => resolved[i] = W.resolved[1]

\* a frame was decoded and the stream is cut inside the header of the next
C6_Witness ==
  \E i \in PayIds :
    /\ Len(DecodedOpcodes(i)) = 1
    /\ Len(buffer[i]) \in {1, 2}

\* C7: at most one socket has listeners of the client attached, it is the
\* owned socket, every other socket that was created is destroyed, and the
\* onData listeners of the invocations are on the owned socket only.
C7_OneSocket ==
  /\ Cardinality({s \in SockIds : listeners[s]}) <= 1
  /\ \A s \in SockIds : listeners[s] => s = socket
  /\ \A s \in SockIds : s # socket => sstate[s] \in {"absent", "destroyed"}
  /\ \A i \in PayIds : lsock[i] \in {0, socket}

\* connect() replaced a socket that was still connecting
C7_Witness ==
  /\ socket = 2
  /\ listeners[2]
  /\ destroyCalls[1] = 1
  /\ ~Emitted("connected", 1)

\* C8: in every state disconnect() leaves the client without a socket and
\* emits no event; called again it changes nothing, and so does a call made
\* when no socket is owned.
C8_DisconnectIdempotent ==
  LET D == disconnect(State)
  IN  /\ D.socket = 0
      /\ D.events = events
      /\ disconnect(D) = D
      /\ socket = 0 => D = State

\* disconnect() was called on a socket that had already failed
C8_Witness ==
  /\ socket = 0
  /\ \E s \in SockIds : destroyCalls[s] = 1 /\ Emitted("error", s)

\* C9: when no socket is owned, send(), startPayment() and abortPayment()
\* throw and change nothing else: no write, no listener, no timer.
C9_NotConnectedThrows ==
  socket = 0 =>
    LET T == [State EXCEPT !.thrown = @ + 1]
    IN  /\ send(State, ACK) = T
        /\ \A a \in Amounts : startPayment(State, a) = T
        /\ abortPayment(State) = T

\* a call threw after the connection had been used and torn down
C9_Witness ==
  /\ socket = 0
  /\ thrown = 1
  /\ nconnect = 1
  /\ npay = 0

\* C10 as stated: after the 'error' or the 'close' listener of a socket ran,
\* the client does not own that socket, and no call writes to a destroyed
\* socket.
C10_NoSocketAfterErrorOrClose ==
  /\ \A s \in SockIds :
       (Emitted("error", s) \/ Emitted("disconnected", s)) => socket # s
  /\ \A s \in SockIds : deadWrites[s] = 0

\* C11: a settled invocation has no byte listener, and no later step --
\* bytes arriving on the connection included -- makes it call onStatus or
\* onReceiptLine, write an ACK, take bytes into its buffer or change its
\* outcome.
C11_DetachedAfterSettlement ==
  [][\A i \in PayIds :
       /\ finished'[i] => lsock'[i] = 0
       /\ finished[i] =>
            /\ finished'[i]
            /\ plog'[i] = plog[i]
            /\ resolved'[i] = resolved[i]
            /\ buffer'[i] = buffer[i]
            /\ rx'[i] = rx[i]]_vars

\* an invocation settled and bytes arrived on its connection afterwards, in
\* a later chunk
C11_Witness ==
  \E i \in PayIds, s \in SockIds :
    /\ finished[i]
    /\ rx[i] # <<>>
    /\ IsPrefix(rx[i], received[s])
    /\ Len(received[s]) > Len(rx[i])

\* C12: with a socket owned, abortPayment() hands the frame 06 02 00 to the
\* socket (which drops it if it is destroyed) and changes nothing else,
\* whatever invocations are outstanding; and an invocation is settled only
\* by a Completion frame it decoded or by its timer.
C12_AbortOnlyWrites ==
  /\ socket # 0 =>
       LET A == abortPayment(State)
       IN  IF sstate[socket] = "destroyed"
             THEN A = [State EXCEPT !.deadWrites[socket] = @ + 1]
             ELSE A = [State EXCEPT !.written[socket] = Append(@, <<6, 2, 0>>)]
  /\ \A i \in PayIds :
       finished[i] => (CompletionDecoded(i) \/ optimer[i] = "fired")

\* abortPayment() was called while an invocation was outstanding, which was
\* settled by the Completion frame that came later
C12_Witness ==
  \E s \in SockIds :
    /\ Len(written[s]) = 3
    /\ written[s][2] = <<6, 2, 0>>
    /\ written[s][3] = ACK
    /\ CompletionDecoded(1)
    /\ Len(resolved[1]) = 1

\* the first Completion frame among the bytes invocation i received
FirstCompletion(i) ==
  LET fs == UntilCompletion(Frames(rx[i])) IN fs[Len(fs)]

\* C13: an invocation is settled exactly when it decoded a Completion frame
\* or its timer fired, whatever other frames it decoded; and its result has
\* success = true only if it decoded a Completion frame whose text has an
\* approval keyword and its timer did not fire.
C13_OnlyCompletionSettles ==
  \A i \in PayIds :
    /\ finished[i] <=> (CompletionDecoded(i) \/ optimer[i] = "fired")
    /\ finished[i] <=> resolved[i] # <<>>
    /\ (resolved[i] # <<>> /\ resolved[i][1].success) =>
         /\ CompletionDecoded(i)
         /\ optimer[i] # "fired"
         /\ approved(Utf8ToString(FirstCompletion(i).data))

\* a receipt frame did not settle the invocation and the approving
\* Completion frame after it did
C13_Witness ==
  \E i \in PayIds :
    /\ DecodedOpcodes(i) = <<<<6, 209>>, <<6, 15>>>>
    /\ resolved[i] # <<>>
    /\ resolved[i][1].success

\* what each text of CompletionTexts is to give: success, rrn and authCode
\* (<<>>: absent), by reading the text
ExpectedOutcome(txt) ==
  CASE txt = StrApprovedText ->
         [success |-> TRUE, message |-> txt,
          rrn |-> <<49, 50, 51>>, authCode |-> <<52, 53, 54>>]
    [] txt = StrDECLINED ->
         [success |-> FALSE, message |-> txt, rrn |-> <<>>, authCode |-> <<>>]
    [] txt = <<111, 107>> ->
         [success |-> TRUE, message |-> txt, rrn |-> <<>>, authCode |-> <<>>]
    [] txt = <<83, 117, 99, 99, 101, 115, 115>> ->
         [success |-> TRUE, message |-> txt, rrn |-> <<>>, authCode |-> <<>>]
    [] txt = <<114, 114, 110, 58, 97, 45, 49, 32, 78, 79>> ->
         [success |-> FALSE, message |-> txt,
          rrn |-> <<97, 45, 49>>, authCode |-> <<>>]
    [] txt = <<65, 85, 84, 72, 61, 32, 82, 82, 78, 61, 55>> ->
         [success |-> FALSE, message |-> txt, rrn |-> <<55>>, authCode |-> <<>>]
    [] txt = <<65, 85, 84, 72, 61, 49, 32, 97, 117, 116, 104, 58, 50>> ->
         [success |-> FALSE, message |-> txt, rrn |-> <<>>, authCode |-> <<49>>]
    [] txt = <<88, 82, 82, 78, 61, 57, 61, 56>> ->
         [success |-> FALSE, message |-> txt, rrn |-> <<57>>, authCode |-> <<>>]

\* C14: an invocation that decoded a Completion frame is resolved with the
\* outcome of its text: success exactly when the text has APPROV, OK or
\* SUCCESS in any case, rrn and authCode the token after RRN / AUTH and a
\* '=' or ':', absent when there is none; "RRN=123 AUTH=456 APPROVED" gives
\* success, rrn "123" and authCode "456".
C14_OutcomeOfCompletionText ==
  \A i \in PayIds :
    CompletionDecoded(i) =>
      resolved[i] = <<ExpectedOutcome(FirstCompletion(i).data)>>

\* the Completion frame "RRN=123 AUTH=456 APPROVED" was decoded and the
\* invocation resolved with success, "123" and "456"
C14_Witness ==
  \E i \in PayIds :
    /\ CompletionDecoded(i)
    /\ FirstCompletion(i).data = StrApprovedText
    /\ resolved[i] = <<[success |-> TRUE, message |-> StrApprovedText,
                        rrn |-> <<49, 50, 51>>, authCode |-> <<52, 53, 54>>]>>

\* C15: the step that settles an invocation calls resolve once and throws
\* nothing, and when the Completion frame it decoded has the text
\* "DECLINED" the value is success = false, message "DECLINED", no rrn and
\* no authCode.
C15_DeclineIsAResult ==
  [][\A i \in PayIds :
       resolved'[i] # resolved[i] =>
         /\ thrown' = thrown
         /\ Len(resolved'[i]) = 1
         /\ (CompletionDecoded(i)' /\ FirstCompletion(i)'.data = StrDECLINED) =>
              resolved'[i] = <<[success |-> FALSE, message |-> StrDECLINED,
                                rrn |-> <<>>, authCode |-> <<>>]>>]_vars

\* an invocation decoded the Completion frame "DECLINED" and resolved
C15_Witness ==
  \E i \in PayIds :
    /\ CompletionDecoded(i)
    /\ FirstCompletion(i).data = StrDECLINED
    /\ Len(resolved[i]) = 1
    /\ ~resolved[i][1].success

\* the amount invocation i was called with
AmountOf(pl, i) == pl[i][1].v[1]

IsAuthorization(f) == f[1] = 6 /\ f[2] = 1

\* C16: the amount the terminal of the test double reads from the
\* Authorization frame an invocation wrote -- the nibbles of the four bytes
\* as decimal digits -- is the amount the invocation was called with.
C16_AmountRoundTrip ==
  [][npay' = npay + 1 =>
       LET a == AmountOf(plog', npay')
           w == written'[socket]
       IN  w # written[socket] =>
             /\ IsAuthorization(w[Len(w)])
             /\ amountInfo(Frames(w[Len(w)])[1].data) = <<a \div 100, a % 100>>]_vars

\* the amount 12345678 was written and is read back
C16_Witness ==
  \E i \in PayIds, s \in SockIds :
    /\ i <= npay
    /\ AmountOf(plog, i) = 12345678
    /\ \E j \in 1..Len(written[s]) :
         /\ IsAuthorization(written[s][j])
         /\ amountInfo(Frames(written[s][j])[1].data) = <<123456, 78>>

\* payload sizes on both sides of what one length byte can hold
PayloadLengths == {0, 8, 255, 256, 300}

AuthorizationFrame(a) ==
  <<6, 1, 8, 4, 4>>
    \o [k \in 1..4 |-> 16 * ((a \div 10 ^ (9 - 2 * k)) % 10)
                          + ((a \div 10 ^ (8 - 2 * k)) % 10)]
    \o <<6, 0>>

\* the Authorization frames among the frames written
AuthorizationsIn(w) ==
  SumOver([s \in SockIds |-> Len(SelectSeq(w[s], IsAuthorization))], SockIds)

\* C18: the call of startPayment that starts an invocation hands one frame
\* to the owned socket, the 11 bytes AuthorizationFrame(amount), and writes
\* nothing else (a destroyed socket drops the frame); no other step writes
\* an Authorization frame.
C18_OneAuthorizationFrame ==
  [][IF npay' = npay + 1
       THEN LET a == AmountOf(plog', npay')
            IN  IF sstate[socket] = "destroyed"
                  THEN /\ written' = written
                       /\ deadWrites' =
                            [deadWrites EXCEPT ![socket] = @ + 1]
                  ELSE /\ written' =
                            [written EXCEPT ![socket] =
                               Append(@, AuthorizationFrame(a))]
                       /\ deadWrites' = deadWrites
       ELSE AuthorizationsIn(written') = AuthorizationsIn(written)]_vars

\* two invocations wrote their Authorization frames, of different amounts
C18_Witness ==
  \E s \in SockIds :
    /\ npay = 2
    /\ Len(written[s]) = 2
    /\ written[s][1] = AuthorizationFrame(7)
    /\ written[s][2] = AuthorizationFrame(99999999)

\* what handling the frame f alone adds to the log of an invocation: the
\* frame, the callback of a Status or receipt frame with its text, the ACK
HandlingOf(f) ==
  LET fr  == [k |-> "frame", v |-> <<f.cla, f.ins>>]
      ack == [k |-> "ack", v |-> <<>>]
  IN  IF f.cla = 4 /\ f.ins = 15
        THEN <<fr, [k |-> "onStatus",
                    v |-> IF f.data = <<>> THEN StrSTATUS ELSE f.data], ack>>
      ELSE IF f.cla = 6 /\ f.ins \in {209, 211}
        THEN <<fr, [k |-> "onReceiptLine", v |-> f.data], ack>>
      ELSE <<fr, ack>>

RECURSIVE HandlingInOrder(_)
HandlingInOrder(fs) ==
  IF fs = <<>> THEN <<>>
  ELSE HandlingOf(fs[1]) \o HandlingInOrder(SubSeq(fs, 2, Len(fs)))

\* C19: what an invocation did is, frame by frame in the order of the
\* bytes it received and up to the first Completion frame, the callback of
\* the frame (onStatus with the text or "STATUS", onReceiptLine with the
\* text) and then its ACK, each frame handled before the next is decoded,
\* whatever the chunks.
C19_FramesInOrder ==
  \A i \in PayIds :
    i <= npay =>
      SubSeq(plog[i], 2, Len(plog[i])) =
        HandlingInOrder(UntilCompletion(Frames(rx[i])))

\* a Status frame with text and a receipt line were handled, in this order
C19_Witness ==
  \E i \in PayIds :
    /\ i <= npay
    /\ rx[i] = FrameStatusText \o FrameReceiptLine
    /\ Len(plog[i]) = 7
    /\ plog[i][3] = [k |-> "onStatus", v |-> <<65>>]
    /\ plog[i][6] = [k |-> "onReceiptLine", v |-> <<82>>]

\* C20 as stated: connected is emitted at most once for a socket and not
\* before its handshake has succeeded -- while a TLS socket is still in its
\* TLS handshake connected has not been emitted for it and its
\* connect-timeout timer has not been cleared.
C20_ConnectedAfterHandshake ==
  \A s \in SockIds :
    /\ CountIn(events, "connected", s) <= 1
    /\ sstate[s] = "handshaking" =>
         /\ ~Emitted("connected", s)
         /\ ctimer[s] # "cleared"

\* ------------------------------------------------------------------------
\* SpecTimers: connections with and without the connect and idle timers,
\* every socket event, disconnect() at any moment.  Node emits 'close' for
\* every socket it destroyed: the event loop runs the close callback of the
\* handle, so a pending 'close' is not postponed for ever.
\* ------------------------------------------------------------------------
NextTimers ==
  \/ Connect(ConnectOptions, MaxCalls)
  \/ Disconnect
  \/ \E s \in SockIds : SocketConnect(s)
  \/ \E s \in SockIds : SecureConnect(s)
  \/ \E s \in SockIds : SocketError(s)
  \/ \E s \in SockIds : SocketClose(s)
  \/ \E s \in SockIds : IdleTimeout(s)
  \/ \E s \in SockIds : ConnectTimeout(s)
  \/ TerminalSend({FrameStatusEmpty}, MaxFrames)
  \/ \E s \in SockIds : SocketData(s)

CloseIsEmitted == \A s \in SockIds : WF_vars(SocketClose(s))

SpecTimers == Init /\ [][NextTimers]_vars /\ CloseIsEmitted

\* the position of the first event of the type from socket s, 0 for none
FirstEvent(type, s) ==
  LET at == {j \in 1..Len(events) : events[j] = [type |-> type, sock |-> s]}
  IN  IF at = {} THEN 0 ELSE CHOOSE j \in at : \A k \in at : j <= k

\* the events of socket s from position j on are exactly these types
EventsFrom(j, s, types) ==
  SelectSeq(SubSeq(events, j, Len(events)), LAMBDA e : e.sock = s)
    = [k \in 1..Len(types) |-> [type |-> types[k], sock |-> s]]

\* C21 as stated: once the idle timer of a socket has fired, timeout, error
\* and one disconnected event follow for it, whatever the application does.
C21_Original ==
  \A s \in SockIds : Emitted("timeout", s) ~> Emitted("disconnected", s)

\* C21: when the idle timer of the owned socket fires the client emits
\* timeout, the socket is destroyed and error follows at once; no rawData
\* is delivered for the socket from then on; at most one disconnected
\* follows, after error, and it does follow unless disconnect() or
\* connect() removes the listeners of the socket before its 'close'.
C21_IdleTimeoutClosesSocket ==
  /\ [](\A s \in SockIds :
          Emitted("timeout", s) =>
            /\ sstate[s] = "destroyed"
            /\ CountIn(events, "timeout", s) = 1
            /\ FirstEvent("timeout", s) < Len(events)
            /\ events[FirstEvent("timeout", s) + 1] = [type |-> "error", sock |-> s]
            /\ \/ EventsFrom(FirstEvent("timeout", s), s, <<"timeout", "error">>)
               \/ EventsFrom(FirstEvent("timeout", s), s,
                             <<"timeout", "error", "disconnected">>)
            /\ Emitted("disconnected", s) => ~closePending[s])
  /\ [][\A s \in SockIds :
          Emitted("timeout", s) => received'[s] = received[s]]_vars
  /\ \A s \in SockIds :
       Emitted("timeout", s) ~> (Emitted("disconnected", s) \/ ~listeners[s])

C21_Witness ==
  \E s \in SockIds :
    /\ received[s] # <<>>
    /\ Emitted("timeout", s)
    /\ EventsFrom(FirstEvent("timeout", s), s,
                  <<"timeout", "error", "disconnected">>)
    /\ Emitted("disconnected", s)

\* C22: connect() does not throw.  When creating the socket fails, the
\* failure is delivered as exactly one error event, emitted by connect()
\* itself, and the client owns no socket afterwards: the previous one is
\* torn down and none is stored.  A connect() that does not fail emits
\* nothing and owns the new socket.
C22_ConnectNeverThrows ==
  [][nconnect' = nconnect + 1 =>
       /\ thrown' = thrown
       /\ \/ /\ socket' = nconnect'
             /\ events' = events
          \/ /\ socket' = 0
             /\ events' = Append(events, [type |-> "error", sock |-> 0])
             /\ sstate'[nconnect'] = "absent"
             /\ ~listeners'[nconnect']
             /\ socket # 0 =>
                  sstate'[socket] = "destroyed" /\ ~listeners'[socket]]_vars

C22_Witness ==
  /\ socket = 0
  /\ nconnect = 2
  /\ destroyCalls[1] = 1
  /\ CountIn(events, "error", 0) = 1
  /\ events[Len(events)] = [type |-> "error", sock |-> 0]

\* the terminal events sent for invocation i, and the replies to its request
TerminalFor(i) ==
  SelectSeq(external, LAMBDA e : e.by = "payment" /\ e.pay = i)
RepliesFor(i) ==
  SelectSeq(replies, LAMBDA r : r.channel = "zvt:start-payment" /\ r.pay = i)

\* the terminal event of a payment that resolved with result r
ExpectedTerminal(r, i) ==
  [type |-> IF r.success THEN "approved" ELSE "declined",
   code |-> "",
   text |-> IF r.success THEN <<>> ELSE r.message,
   rrn |-> IF r.success THEN r.rrn ELSE <<>>,
   authCode |-> IF r.success THEN r.authCode ELSE <<>>,
   by |-> "payment", pay |-> i]

\* C23 as stated: every payment request that has ended has sent exactly one
\* terminal event to the window.
C23_Original ==
  \A i \in PayIds : resolved[i] # <<>> => Len(TerminalFor(i)) = 1

\* C23: a 'zvt:start-payment' request returns one value and never rejects,
\* and sends at most one terminal event: approved with rrn and authCode when
\* the outcome is a success, declined with the outcome's message (the timeout
\* message included) when it is not, error with 'Socket not connected' when
\* startPayment throws.  Exactly one is sent while the window exists; none
\* when the window was destroyed before the payment ended.
C23_OneTerminalEventPerRequest ==
  /\ [](\A i \in PayIds :
          /\ Len(TerminalFor(i)) <= 1
          /\ Len(RepliesFor(i)) <= 1
          /\ resolved[i] = <<>> => TerminalFor(i) = <<>> /\ RepliesFor(i) = <<>>
          /\ resolved[i] # <<>> =>
               /\ Len(RepliesFor(i)) = 1
               /\ RepliesFor(i)[1].value = resolved[i][1]
               /\ runtime = "active" => Len(TerminalFor(i)) = 1
               /\ \A k \in 1..Len(TerminalFor(i)) :
                    TerminalFor(i)[k] = ExpectedTerminal(resolved[i][1], i))
  /\ [][thrown' # thrown =>
          /\ socket = 0
          /\ npay' = npay
          /\ replies' = Append(replies,
                 [channel |-> "zvt:start-payment", connectionType |-> "",
                  pay |-> 0, value |-> Failure(StrNotConnected)])
          /\ external' = Append(external,
                 ExternalEvent("error", "", StrNotConnected, "payment", 0))]_vars

C23_Witness ==
  /\ npay = 2
  /\ Len(TerminalFor(1)) = 1 /\ TerminalFor(1)[1].type = "approved"
  /\ Len(TerminalFor(2)) = 1 /\ TerminalFor(2)[1].type = "declined"
  /\ TerminalFor(2)[1].text = StrTimeout
  /\ Len(replies) = 3

\* the connection events sent to the window, and the status and
\* receipt-line events sent for invocation i
ConnectionEventsSent ==
  SelectSeq(external, LAMBDA e : e.by = "client" /\ e.code # "RAW")
CallbackEventsSent(i) ==
  SelectSeq(external, LAMBDA e : e.by = "callback" /\ e.pay = i)
\* the callbacks invocation i made, in order
Callbacks(i) ==
  SelectSeq(plog[i], LAMBDA e : e.k \in {"onStatus", "onReceiptLine"})

\* C24: the events sent to the window keep the order of the signals behind
\* them.  The connection events are the client's connected, timeout, error
\* and disconnected events in the order emitted (timeout is sent as an
\* error); the status and receipt-line events of a payment are its
\* callbacks in the order of the frames, and all of them come before the
\* approved or declined event of that payment.
C24_ExternalOrderPreserved ==
  /\ Len(ConnectionEventsSent) = Len(events)
  /\ \A j \in 1..Len(events) :
       ConnectionEventsSent[j].type =
         IF events[j].type = "timeout" THEN "error" ELSE events[j].type
  /\ \A i \in PayIds :
       /\ Len(CallbackEventsSent(i)) = Len(Callbacks(i))
       /\ \A j \in 1..Len(Callbacks(i)) :
            /\ CallbackEventsSent(i)[j].type =
                 IF Callbacks(i)[j].k = "onStatus" THEN "status"
                                                   ELSE "receipt-line"
            /\ CallbackEventsSent(i)[j].text =
                 Take(Callbacks(i)[j].v, 100) \o StrEllipsis
       /\ \A j, k \in 1..Len(external) :
            /\ external[j].by = "callback" /\ external[j].pay = i
            /\ external[k].by = "payment" /\ external[k].pay = i
            => j < k

C24_Witness ==
  \E a, b, c, d \in 1..Len(external) :
    /\ a < b /\ b < c /\ c < d
    /\ external[a].type = "connected"
    /\ external[b].type = "receipt-line" /\ external[b].pay = 1
    /\ external[c].type = "status" /\ external[c].pay = 1
    /\ external[d].type = "declined" /\ external[d].pay = 1
    /\ Callbacks(1)[1].k = "onReceiptLine"

\* everything but the count of calls and the replies
clientAndWindow ==
  <<socket, nconnect, sstate, idle, ctimer, listeners, closePending,
    destroyCalls, written, deadWrites, events, thrown, inflight, nsent,
    received, npay, finished, buffer, optimer, lsock, resolved, plog, rx,
    runtime, external, mockRead>>

\* C25: a connect request for the serial transport is answered with
\* {success: false, message: 'Serial connection type is not supported yet'}
\* and does nothing else: connect() of the client is not called, the
\* connection that exists stays as it is, and no event is sent.
C25_SerialConnectRefused ==
  [][(/\ Len(replies') = Len(replies) + 1
      /\ replies'[Len(replies')].channel = "zvt:connect"
      /\ replies'[Len(replies')].connectionType = "serial")
     => /\ replies'[Len(replies')].value = Failure(StrSerial)
        /\ SubSeq(replies', 1, Len(replies)) = replies
        /\ UNCHANGED clientAndWindow]_vars

C25_Witness ==
  /\ replies # <<>>
  /\ replies[Len(replies)].connectionType = "serial"
  /\ replies[Len(replies)].value = Failure(StrSerial)
  /\ nconnect = 1 /\ socket = 1 /\ sstate[1] = "open" /\ listeners[1]
  /\ npay = 1 /\ lsock[1] = 1

\* C26: the test double reads the Abort frame of the client, 06 02 00, as
\* an Abort and answers it with the Completion 'COMPLETION:DECLINED' alone,
\* and no invocation resolves as a success once the test double has read
\* an Abort.
C26_AbortRecognisedByTestDouble ==
  [][\A s \in SockIds :
       /\ (/\ mockRead'[s] = mockRead[s] + 1
           /\ written[s][mockRead'[s]] = buildApdu(6, 2, <<>>))
          => inflight'[s] = inflight[s] \o completion(FALSE)
       /\ (/\ \E j \in 1..mockRead[s] : written[s][j] = buildApdu(6, 2, <<>>)
           /\ \E i \in PayIds : lsock[i] = s /\ resolved'[i] # resolved[i])
          => \A i \in PayIds :
               resolved'[i] # resolved[i]
                 => ~resolved'[i][Len(resolved'[i])].success]_vars

\* C27: the client does not acknowledge acknowledgements.  An ACK is
\* written only in answer to a frame that is not an ACK frame (80 00); an
\* inbound ACK frame decoded by an invocation is followed by no ACK of it.
C27_NoAckForInboundAck ==
  \A i \in PayIds :
    \A j \in 1..Len(plog[i]) :
      (plog[i][j].k = "frame" /\ plog[i][j].v = <<128, 0>>)
        => AcksAfter(plog[i], j) = 0

\* ------------------------------------------------------------------------
\* SpecConcurrent: invocations of startPayment that overlap on one
\* connection, with a Status and a Completion frame in every chunking,
\* while no operation timer fires.
\* ------------------------------------------------------------------------
\* the terminal answers with Status "A" and Completion "OK"
ConcurrentAnswers == {FrameStatusText \o FrameCompletionOK}

NextConcurrent ==
  \/ ConnectWithin(PlainOptions, MaxConnects)
  \/ StartPayment(Amounts, AuthMaxCalls)
  \/ \E s \in SockIds : SocketConnect(s)
  \/ TerminalSend(ConcurrentAnswers, MaxFrames)
  \/ \E s \in SockIds : SocketData(s)

SpecConcurrent == Init /\ [][NextConcurrent]_vars

\* invocations i and j are both listening on one socket
BothListening(i, j) == i < j /\ lsock[i] # 0 /\ lsock[i] = lsock[j]

\* C28 as stated: from the second call on, every inbound frame is processed
\* by both invocations: in every step they decode the same number of frames.
C28_Original ==
  [][\A i, j \in PayIds :
       BothListening(i, j) =>
         Len(Entries(plog'[i], "frame")) - Len(Entries(plog[i], "frame"))
           = Len(Entries(plog'[j], "frame")) - Len(Entries(plog[j], "frame"))]_vars

\* C28: a startPayment called while another is outstanding is accepted: it
\* writes its own Authorization frame and attaches its own listener next to
\* the ones attached.  Two invocations listening on one socket with equal
\* receive buffers -- the later one was started when the earlier one held no
\* partial frame -- handle every 'data' event alike: the same frames, the
\* same callbacks once each, one ACK each per frame, equal buffers
\* afterwards, and a Completion settles both with the same outcome.  Every
\* ACK on the wire is the ACK of one invocation for one frame.
C28_ConcurrentInvocations ==
  [][/\ (npay' = npay + 1 /\ \E i \in PayIds : lsock[i] = socket /\ socket # 0)
        => /\ thrown' = thrown
           /\ lsock'[npay'] = socket
           /\ \A i \in PayIds : i # npay' => lsock'[i] = lsock[i]
           /\ AuthorizationsIn(written') = AuthorizationsIn(written) + 1
           /\ AuthorizationsIn(written') >= 2
     /\ \A i, j \in PayIds :
          (BothListening(i, j) /\ buffer[i] = buffer[j] /\ rx'[i] # rx[i])
            => /\ SubSeq(plog'[i], Len(plog[i]) + 1, Len(plog'[i]))
                   = SubSeq(plog'[j], Len(plog[j]) + 1, Len(plog'[j]))
               /\ buffer'[i] = buffer'[j]
               /\ SubSeq(rx'[i], Len(rx[i]) + 1, Len(rx'[i]))
                   = SubSeq(rx'[j], Len(rx[j]) + 1, Len(rx'[j]))
               /\ finished'[i] = finished'[j]
               /\ SubSeq(resolved'[i], Len(resolved[i]) + 1, Len(resolved'[i]))
                   = SubSeq(resolved'[j], Len(resolved[j]) + 1, Len(resolved'[j]))
     /\ \A s \in SockIds :
          AcksOnWire(s)' - AcksOnWire(s)
            = SumOver([i \in PayIds |->
                         IF lsock[i] = s THEN AcksLogged(i)' - AcksLogged(i)
                                         ELSE 0], PayIds)]_vars

C28_Witness ==
  /\ npay = 2
  /\ rx[1] = rx[2] /\ rx[1] = FrameStatusText \o FrameCompletionOK
  /\ DecodedOpcodes(1) = <<<<4, 15>>, <<6, 15>>>>
  /\ DecodedOpcodes(2) = DecodedOpcodes(1)
  /\ Len(Entries(plog[1], "onStatus")) = 1
  /\ Len(Entries(plog[2], "onStatus")) = 1
  /\ AcksOnWire(1) = 4
  /\ AuthorizationsIn(written) = 2
  /\ Len(resolved[1]) = 1 /\ resolved[1] = resolved[2]
  /\ resolved[1][1].success

\* C29 as stated: whenever the connect timer of an attempt has fired, an
\* error and a disconnected event follow for that attempt.
C29_Original ==
  \A s \in SockIds :
    (ctimer[s] \in {"fired", "firedTornDown"})
      ~> (Emitted("error", s) /\ Emitted("disconnected", s))

\* C29: when the connect timer fires on an attempt that has not been torn
\* down, the socket is destroyed with 'Connect timeout' and the client
\* emits error for it; connected is never emitted for the attempt; at most
\* one disconnected follows, and it does follow unless disconnect() or
\* connect() removes the listeners before 'close'.  When the timer fires
\* on an attempt that disconnect() or connect() has torn down, nothing is
\* emitted for the attempt.
C29_ConnectTimeoutEndsAttempt ==
  /\ [](\A s \in SockIds :
          /\ ctimer[s] = "fired" =>
               /\ sstate[s] = "destroyed"
               /\ \/ EventsFrom(1, s, <<"error">>)
                  \/ EventsFrom(1, s, <<"error", "disconnected">>)
               /\ Emitted("disconnected", s) => ~closePending[s]
          /\ ctimer[s] = "firedTornDown" =>
               /\ sstate[s] = "destroyed"
               /\ EventsFrom(1, s, <<>>))
  /\ \A s \in SockIds :
       (ctimer[s] = "fired") ~> (Emitted("disconnected", s) \/ ~listeners[s])

C29_Witness ==
  \E s \in SockIds :
    /\ ctimer[s] = "fired"
    /\ EventsFrom(1, s, <<"error", "disconnected">>)

\* ------------------------------------------------------------------------
\* SpecTeardown: payments on connections that are disconnected, replaced,
\* fail or are closed by the terminal (the 'close' callback, which only
\* emits "disconnected", is left to Spec and SpecTimers).  Timers that were
\* set and not cleared fire: the callback of setTimeout runs once its delay
\* is over.
\* ------------------------------------------------------------------------
NextTeardown ==
  \/ ConnectWithin(PlainOptions, MaxCalls)
  \/ StartPayment(Amounts, AuthMaxCalls)
  \/ Disconnect
  \/ \E s \in SockIds : SocketConnect(s)
  \/ \E s \in SockIds : SocketError(s)
  \/ \E s \in SockIds : RemoteClose(s)
  \/ TerminalSend({FrameCompletionOK}, MaxFrames)
  \/ \E s \in SockIds : SocketDataWhole(s)
  \/ \E i \in PayIds : OperationTimeout(i)

TimerFires == WF_vars(\E i \in PayIds : OperationTimeout(i))

SpecTeardown == Init /\ [][NextTeardown]_vars /\ TimerFires

\* invocation i is outstanding and its connection is gone: its listener was
\* removed by disconnect() or connect(), or its socket is destroyed
Orphaned(i) ==
  /\ optimer[i] = "armed"
  /\ lsock[i] = 0 \/ sstate[lsock[i]] = "destroyed"

\* C30: the end of the connection does not settle an outstanding
\* startPayment.  A step that takes its connection away (disconnect(), a
\* new connect(), a socket error, a close) leaves it pending with its timer
\* armed; from then on it receives no byte and handles no frame, and it
\* stops being so only by its timer, which settles it exactly once with
\* success=false and the timeout message; in the end no invocation is left
\* in that state.  That late settlement changes nothing else: not the owned
\* socket, not its listeners, not what was written, not another invocation.
C30_TeardownLeavesPaymentPending ==
  /\ [](\A i \in PayIds :
          Orphaned(i) => ~finished[i] /\ resolved[i] = <<>>)
  /\ [][\A i \in PayIds :
          /\ (optimer[i] = "armed" /\ ~Orphaned(i) /\ finished'[i])
               => \/ rx'[i] # rx[i]
                  \/ optimer'[i] = "fired"
          /\ Orphaned(i) =>
               /\ rx'[i] = rx[i] /\ plog'[i] = plog[i] /\ buffer'[i] = buffer[i]
               /\ \/ Orphaned(i)'
                  \/ /\ optimer'[i] = "fired"
                     /\ resolved'[i] = <<TimeoutResult>>
                     /\ finished'[i]
                     /\ UNCHANGED <<socket, sstate, listeners, closePending,
                                    written, deadWrites, events, inflight>>
                     /\ \A j \in PayIds \ {i} :
                          /\ lsock'[j] = lsock[j] /\ finished'[j] = finished[j]
                          /\ optimer'[j] = optimer[j] /\ buffer'[j] = buffer[j]
                          /\ resolved'[j] = resolved[j]]_vars
  /\ <>[](\A i \in PayIds : ~Orphaned(i))

C30_Witness ==
  /\ nconnect = 2 /\ socket = 2 /\ sstate[2] = "open" /\ listeners[2]
  /\ destroyCalls[1] = 1
  /\ rx[1] = <<>> /\ resolved[1] = <<TimeoutResult>> /\ optimer[1] = "fired"
  /\ lsock[2] = 2 /\ optimer[2] = "armed" /\ ~finished[2]

\* ------------------------------------------------------------------------
\* SpecResidue: what stays in the buffer of an invocation.  Payments one
\* after the other on one connection; the terminal writes a Completion
\* followed by a whole frame or by the start of one, the start of a frame
\* alone, or a receipt line.
\* ------------------------------------------------------------------------
ResidueAnswers ==
  {FrameCompletionOK \o FrameStatusText,
   FrameCompletionOK \o <<6, 209, 1>>,
   <<4, 15, 2, 65>>,
   FrameReceiptLine}

NextResidue ==
  \/ ConnectWithin(PlainOptions, MaxConnects)
  \/ StartPayment(Amounts, AuthMaxCalls)
  \/ \E s \in SockIds : SocketConnect(s)
  \/ TerminalSend(ResidueAnswers, PayMaxFrames)
  \/ \E s \in SockIds : SocketDataWhole(s)
  \/ \E i \in PayIds : OperationTimeout(i)

SpecResidue == Init /\ [][NextResidue]_vars

\* the bytes the frames fs take on the wire
EncodedLength(fs) ==
  SumOver([j \in 1..Len(fs) |-> 3 + Len(fs[j].data)], 1..Len(fs))

\* C31: the bytes behind a Completion frame are dropped.  In the step in
\* which an invocation settles by a Completion frame it decodes and ACKs
\* the frames of its buffer up to and including that frame and no more, it
\* makes the callbacks of those frames only, and what follows stays in its
\* buffer; when no other invocation listens the ACKs of those frames are all
\* that is written.  A settled invocation, by Completion or by timeout,
\* never decodes, ACKs or calls back again, whatever its buffer holds.  An
\* invocation starts with an empty buffer and decodes the bytes delivered
\* after its start only.
C31_ResidueDiscarded ==
  /\ [](\A i \in PayIds :
          DecodedOpcodes(i) = Opcodes(UntilCompletion(Frames(rx[i]))))
  /\ [][\A i \in PayIds :
          /\ (~finished[i] /\ finished'[i] /\ optimer'[i] = "cleared") =>
               LET chunk == SubSeq(rx'[i], Len(rx[i]) + 1, Len(rx'[i]))
                   fs    == UntilCompletion(Frames(buffer[i] \o chunk))
                   k     == Len(fs)
                   added == SubSeq(plog'[i], Len(plog[i]) + 1, Len(plog'[i]))
               IN  /\ IsCompletion(fs[k])
                   /\ Len(Entries(added, "frame")) = k
                   /\ Len(Entries(added, "ack")) = k
                   /\ Len(Entries(added, "onStatus")) =
                        Len(SelectSeq(fs, LAMBDA f : f.cla = 4 /\ f.ins = 15))
                   /\ Len(Entries(added, "onReceiptLine")) =
                        Len(SelectSeq(fs, LAMBDA f :
                              f.cla = 6 /\ f.ins \in {209, 211}))
                   /\ buffer'[i] = Slice(buffer[i] \o chunk, EncodedLength(fs))
                   /\ (\A j \in PayIds \ {i} : lsock[j] # lsock[i]) =>
                        written'[lsock[i]] =
                          written[lsock[i]] \o [m \in 1..k |-> ACK]
          /\ finished[i] =>
               /\ plog'[i] = plog[i]
               /\ buffer'[i] = buffer[i]
          /\ (npay' = npay + 1 /\ i = npay') =>
               /\ buffer'[i] = <<>>
               /\ rx'[i] = <<>>]_vars

\* an invocation settled by a Completion frame with a whole Status frame
\* left in its buffer, and the next invocation decoded the receipt line
\* that came after it started
C31_Witness ==
  /\ npay = 2
  /\ resolved[1] # <<>> /\ optimer[1] = "cleared"
  /\ buffer[1] = FrameStatusText
  /\ DecodedOpcodes(1) = <<<<6, 15>>>>
  /\ AcksOnWire(1) = 2
  /\ rx[2] = FrameReceiptLine
  /\ DecodedOpcodes(2) = <<<<6, 209>>>>

\* the events the client emitted for socket s
EventsOf(ev, s) == SelectSeq(ev, LAMBDA e : e.sock = s)

\* C32: disconnect() is silent.  A step that tears a socket down, by
\* disconnect() or by the disconnect() inside connect(), emits nothing for
\* it, and from then on no event and no rawData is ever emitted for that
\* socket: its 'close' finds no listener.  The only event such a step can
\* emit is the error of a connect() that failed to create the new socket.
\* So a disconnected event, at most one for a socket, is emitted by the
\* 'close' of a socket on which disconnect() was not called.
C32_DisconnectIsSilent ==
  /\ [][\A s \in SockIds :
          /\ destroyCalls'[s] > 0 =>
               /\ EventsOf(events', s) = EventsOf(events, s)
               /\ received'[s] = received[s]
          /\ destroyCalls'[s] > destroyCalls[s] =>
               \/ events' = events
               \/ /\ socket' = 0
                  /\ nconnect' = nconnect + 1
                  /\ events' = Append(events, [type |-> "error", sock |-> 0])
          /\ CountIn(events', "disconnected", s) >
                CountIn(events, "disconnected", s) =>
               /\ destroyCalls'[s] = 0
               /\ closePending[s] /\ ~closePending'[s]]_vars
  /\ [](\A s \in SockIds : CountIn(events, "disconnected", s) <= 1)

\* a connected socket was ended by disconnect() and nothing but connected
\* was ever emitted for it; the next socket was closed by the terminal and
\* disconnected was emitted for it
C32_Witness ==
  /\ destroyCalls[1] = 1 /\ socket = 2
  /\ EventsOf(events, 1) = <<[type |-> "connected", sock |-> 1]>>
  /\ ~closePending[1]
  /\ destroyCalls[2] = 0 /\ sstate[2] = "destroyed"
  /\ Emitted("disconnected", 2)

\* the connect timer of attempt s runs in this step
ConnectTimerRuns(s) == ctimer[s] = "armed" /\ ctimer'[s] \in {"fired", "firedTornDown"}

\* C33: the connect timer of an attempt touches the socket of that attempt
\* only.  The step in which it runs leaves every other socket as it was --
\* state, listeners, idle timer, pending 'close', bytes -- and leaves the
\* owned socket the owned socket; when the attempt was replaced by a later
\* connect() the step changes nothing but the timer itself: no socket is
\* destroyed and no event is emitted.
C33_StaleConnectTimerHarmless ==
  [][\A s \in SockIds :
       ConnectTimerRuns(s) =>
         /\ socket' = socket
         /\ \A t \in SockIds \ {s} :
              /\ sstate'[t] = sstate[t] /\ listeners'[t] = listeners[t]
              /\ closePending'[t] = closePending[t] /\ idle'[t] = idle[t]
              /\ ctimer'[t] = ctimer[t]
              /\ EventsOf(events', t) = EventsOf(events, t)
         /\ nconnect > s =>
              /\ ctimer'[s] = "firedTornDown"
              /\ UNCHANGED <<sstate, listeners, closePending, idle, events,
                             destroyCalls, received, inflight, written,
                             external>>]_vars

\* the timer of the first attempt ran after connect() had replaced it, and
\* the second attempt is still connecting with its own timer pending
C33_Witness ==
  /\ ctimer[1] = "firedTornDown"
  /\ nconnect = 2 /\ socket = 2
  /\ sstate[2] = "connecting" /\ listeners[2] /\ ctimer[2] = "armed"
  /\ events = <<>>

\* ------------------------------------------------------------------------
\* SpecLargeAmounts: payments of amounts at and above the end of the
\* 8-digit field.
\* ------------------------------------------------------------------------
LargeAmounts == {99999999, 100000000, 123456789, 2147483647}

\* integers m * 10^e, as <<m, e>>, of 9 to 22 digits
WideNumbers ==
  {<<1, 8>>, <<123456789, 0>>, <<12, 19>>, <<1, 20>>,
   <<1, 21>>, <<12, 20>>, <<123456789, 13>>}

NextLargeAmounts ==
  \/ ConnectWithin(PlainOptions, MaxConnects)
  \/ StartPayment(LargeAmounts, AuthMaxCalls)
  \/ \E s \in SockIds : SocketConnect(s)
  \/ TerminalSend({FrameCompletionOK}, MaxFrames)
  \/ \E s \in SockIds : SocketDataWhole(s)
  \/ \E i \in PayIds : OperationTimeout(i)

SpecLargeAmounts == Init /\ [][NextLargeAmounts]_vars

\* the number of the first eight decimal digits of m * 10^e, an integer
\* of eight digits or more
FirstEight(m, e) ==
  LET k == Len(Digits(m))
  IN  IF k >= 8 THEN m \div 10 ^ (k - 8) ELSE m * 10 ^ (8 - k)

\* the amount field 04 04 b0 b1 b2 b3 of the 8-digit number v
FieldOf(v) == SubSeq(AuthorizationFrame(v), 4, 9)

\* the field amountToBcd makes of the integer x[1] * 10^x[2]
FieldMade(x) == amountToBcdOfText(NumberToString(x[1], x[2]))

\* the Authorization frames written have the amount field 04 04 and four
\* bytes
SixByteField ==
  \A s \in SockIds : \A j \in 1..Len(written[s]) :
    IsAuthorization(written[s][j]) =>
      /\ Len(written[s][j]) = 11
      /\ SubSeq(written[s][j], 4, 5) = <<4, 4>>

\* the field of every number of WideNumbers holds its first eight digits
FirstEightEverywhere ==
  \A x \in WideNumbers : FieldMade(x) = FieldOf(FirstEight(x[1], x[2]))

\* the field of every number of WideNumbers is 04 04 and four bytes; they
\* hold its first eight digits when it has 21 digits or fewer, and are
\* made of the exponent notation when it has more
FirstEightBelowExponent ==
  /\ \A x \in WideNumbers :
       /\ Len(FieldMade(x)) = 6
       /\ SubSeq(FieldMade(x), 1, 2) = <<4, 4>>
       /\ Len(Digits(x[1])) + x[2] <= 21 =>
            FieldMade(x) = FieldOf(FirstEight(x[1], x[2]))
  /\ FieldMade(<<1, 21>>) = <<4, 4, 0, 1, 0, 33>>
  /\ FieldMade(<<12, 20>>) = <<4, 4, 1, 2, 0, 33>>
  /\ FieldMade(<<123456789, 13>>) = <<4, 4, 16, 35, 69, 103>>

\* C34 as stated: for every integer amount of 100000000 or more the four
\* bytes are the first eight decimal digits of the amount.
C34_Original ==
  /\ SixByteField
  /\ FirstEightEverywhere

\* C34: startPayment takes every amount.  The call that starts an
\* invocation throws nothing and writes the frame whose amount field is 04 04
\* and four bytes: the amount itself below 100000000, its first eight
\* decimal digits from 100000000 on, which the terminal reads as another
\* amount.  That holds for the integers of up to 21 digits; from 10^21 on
\* String(amount) is in exponent notation and the four bytes are made of
\* the first eight characters of that text, a character that is no digit
\* counting as 0: 00 01 00 21 for 10^21, 01 02 00 21 for 12 * 10^20,
\* 10 23 45 67 for 123456789 * 10^13.
C34_AmountTruncated ==
  /\ [](SixByteField /\ FirstEightBelowExponent)
  /\ [][npay' = npay + 1 =>
          LET a == AmountOf(plog', npay')
              v == IF a < 100000000 THEN a ELSE FirstEight(a, 0)
          IN  /\ thrown' = thrown
              /\ sstate[socket] # "destroyed" =>
                   written' = [written EXCEPT ![socket] =
                                 Append(@, AuthorizationFrame(v))]
              /\ a >= 100000000 =>
                   amountInfo(Frames(AuthorizationFrame(v))[1].data)
                     # <<a \div 100, a % 100>>]_vars

\* 123456789 was requested and 12345678 is on the wire; the call did not
\* throw
C34_Witness ==
  \E i \in PayIds :
    /\ i <= npay
    /\ AmountOf(plog, i) = 123456789
    /\ thrown = 0
    /\ \E j \in 1..Len(written[1]) :
         /\ written[1][j] = <<6, 1, 8, 4, 4, 18, 52, 86, 120, 6, 0>>
         /\ amountInfo(Frames(written[1][j])[1].data) = <<123456, 78>>

\* ------------------------------------------------------------------------
\* SpecDouble: payments against the test double.  The sockets connect, the
\* test double reads what was written to it, the client reads what is in
\* flight, and timers that were set and not cleared fire.
\* ------------------------------------------------------------------------
NextDouble ==
  \/ ConnectWithin(PlainOptions, MaxConnects)
  \/ StartPayment(Amounts, AuthMaxCalls)
  \/ \E s \in SockIds : SocketConnect(s)
  \/ \E s \in SockIds : MockData(s)
  \/ \E s \in SockIds : SocketDataWhole(s)
  \/ \E i \in PayIds : OperationTimeout(i)

\* the step of MockData(s) and the step of SocketDataWhole(s), each told by
\* what it does to its own counter: no other step of NextDouble moves
\* mockRead[s] forward or empties inflight[s]
MockReads(s) ==
  /\ sstate[s] = "open"
  /\ mockRead[s] < Len(written[s])
  /\ mockRead' = [mockRead EXCEPT ![s] = @ + 1]

ClientReads(s) ==
  /\ sstate[s] = "open"
  /\ inflight[s] # <<>>
  /\ inflight' = [inflight EXCEPT ![s] = <<>>]

\* the callbacks of the event loops of both ends: a socket event that is
\* due is dispatched, a timer that is due fires
ExchangeRuns ==
  /\ WF_vars(\E s \in SockIds : SocketConnect(s))
  /\ WF_mockRead(\E s \in SockIds : MockReads(s))
  /\ WF_inflight(\E s \in SockIds : ClientReads(s))
  /\ WF_vars(\E i \in PayIds : OperationTimeout(i))

SpecDouble == Init /\ [][NextDouble]_vars /\ ExchangeRuns

ApprovedResult ==
  [success |-> TRUE, message |-> StrCompletionApproved,
   rrn |-> <<>>, authCode |-> <<>>]

\* the kinds of the entries of a log
Kinds(l) == [j \in 1..Len(l) |-> l[j].k]

\* C35 as stated: the one startPayment of a run against the test double
\* never ends otherwise than as a success.
C35_Original ==
  (npay = 1 /\ finished[1]) => resolved[1][1].success

\* C35: one startPayment against the test double.  The test double answers
\* the Authorization frame with a Status frame, four receipt lines and the
\* Completion 'COMPLETION:APPROVED', and an ACK with nothing.  The
\* invocation ends: by that Completion, unless its operation timer fires
\* or its connection is replaced before the Completion has reached it, and
\* then the result is success=true with the message 'COMPLETION:APPROVED',
\* after onStatus once and onReceiptLine four times in that order and six
\* ACKs, the only ACKs on the wire.  In the end the test double has read
\* everything written to an open socket and nothing is in flight on it.
C35_ExchangeWithTestDouble ==
  /\ [][\A s \in SockIds :
          mockRead'[s] = mockRead[s] + 1 =>
            LET frame == written[s][mockRead'[s]]
                sent  == SubSeq(inflight'[s], Len(inflight[s]) + 1,
                                Len(inflight'[s]))
            IN  /\ IsAuthorization(frame) =>
                     /\ Opcodes(Frames(sent)) =
                          <<<<4, 15>>, <<6, 209>>, <<6, 209>>, <<6, 209>>,
                            <<6, 209>>, <<6, 15>>>>
                     /\ Frames(sent)[6].data = StrCompletionApproved
                     /\ EncodedLength(Frames(sent)) = Len(sent)
                /\ frame = ACK => sent = <<>>]_vars
  /\ [](npay = 1 =>
          /\ (finished[1] /\ optimer[1] = "cleared") =>
               /\ resolved[1] = <<ApprovedResult>>
               /\ Kinds(Callbacks(1)) =
                    <<"onStatus", "onReceiptLine", "onReceiptLine",
                      "onReceiptLine", "onReceiptLine">>
               /\ Callbacks(1)[2].v = StrDemoReceipt
               /\ Callbacks(1)[5].v = StrResultApproved
               /\ AcksLogged(1) = 6
               /\ SumOver([s \in SockIds |-> AcksOnWire(s)], SockIds) = 6
          /\ (finished[1] /\ optimer[1] # "cleared") =>
               /\ optimer[1] = "fired" /\ resolved[1] = <<TimeoutResult>>
          /\ SumOver([s \in SockIds |-> AcksOnWire(s)], SockIds) <= 6)
  /\ <>[](/\ \A i \in PayIds : i <= npay => finished[i]
          /\ \A s \in SockIds :
               sstate[s] = "open" =>
                 inflight[s] = <<>> /\ mockRead[s] = Len(written[s]))

\* the exchange ran to its end against the test double and is quiet: the
\* test double has read the Authorization frame and the six ACKs, nothing
\* is in flight, and the invocation is settled as approved
C35_Witness ==
  /\ npay = 1 /\ nconnect = 1 /\ sstate[1] = "open"
  /\ resolved[1] = <<ApprovedResult>>
  /\ Len(written[1]) = 7 /\ mockRead[1] = 7
  /\ inflight[1] = <<>>
  /\ AcksOnWire(1) = 6

====
